---------------------------- MODULE Spec2Model ----------------------------
(***************************************************************************)
(* A model of the OSRM preprocessing pipeline of this repository:          *)
(*   - Prepare::Run and the functions it calls                             *)
(*     (src/contractor/processing_chain.cpp),                              *)
(*   - extractor::run, FindComponents and WriteEdgeBasedGraph              *)
(*     (src/extractor/extractor.cpp),                                      *)
(*   - the contraction rounds of the Contractor class, which is not among  *)
(*     the sources and is modelled from its description.                   *)
(*                                                                         *)
(* The specifications of the module:                                       *)
(*   SpecRun        the control flow of Prepare::Run (which files are      *)
(*                  opened, read and written, in which order, and where it *)
(*                  throws);                                               *)
(*   SpecLoad       WriteEdgeBasedGraph followed by LoadEdgeExpandedGraph  *)
(*                  on the data level (file cells, speed table, weights);  *)
(*   SpecWrite      WriteContractedGraph on the data level (sort, node     *)
(*                  array, checksum, the cells of the .hsgr file);         *)
(*   SpecParse      the parse loop of extractor::run (parallel parse of a  *)
(*                  buffer, serial calls of the callbacks);                *)
(*   SpecExtract    the control flow of extractor::run;                    *)
(*   SpecComponents extractor::FindComponents;                             *)
(*   SpecContract   the contraction rounds, the core marker and            *)
(*                  WriteCoreNodeMarker;                                   *)
(*   SpecPipeline   extractor::run followed by Prepare::Run;               *)
(*   SpecLockstep   LoadEdgeExpandedGraph on the three files of a list of  *)
(*                  several edges.                                         *)
(* The variables of the specifications that are not running stay at their  *)
(* idle values.                                                            *)
(***************************************************************************)
EXTENDS Integers, Sequences, FiniteSets, TLC

VARIABLES
    \* ---- Prepare::Run ----
    rpc,                  \* position of Prepare::Run
    core_factor,          \* config.core_factor, in tenths (10 is 1.0)
    use_cached_priority,  \* config.use_cached_priority
    segment_speed_given,  \* config.segment_speed_lookup_path != ""
    seg_lookup_opens,     \* .edge_segment_lookup can be opened
    penalties_open,       \* .edge_penalties can be opened
    events,               \* what Run has done so far, in order
    abort_reason,         \* why Run threw ("none" while it has not)
    node_levels,          \* Run's node_levels vector: where its content is from
    \* ---- WriteEdgeBasedGraph / LoadEdgeExpandedGraph ----
    lpc,                  \* position of the write-then-load sequence
    in_edges,             \* the list WriteEdgeBasedGraph was given
    in_max_edge_id,       \* the max edge id WriteEdgeBasedGraph was given
    edges_file,           \* the cells of the .edges file
    update_edge_weights,  \* LoadEdgeExpandedGraph's flag of the same name
    csv_rows,             \* the rows of the segment-speed CSV file
    segment_speed_lookup, \* the unordered_map built from the rows
    number_of_edges,      \* the loop counter read from the header
    max_edge_id,          \* the max edge id read from the header
    read_pos,             \* next cell of the .edges file
    edge_based_edge_list, \* the list the loader fills
    penalties_read,       \* the .edge_penalties records consumed, in order
    segments_read,        \* the .edge_segment_lookup records consumed, in order
    in_segments,          \* the segment records the side-car writer was given
    penalties_file,       \* the values of the .edge_penalties file
    segments_file,        \* the values of the .edge_segment_lookup file
    penalties_pos,        \* next value of the .edge_penalties stream
    segments_pos,         \* next value of the .edge_segment_lookup stream
    load_ret,             \* the value LoadEdgeExpandedGraph returned
    \* ---- WriteContractedGraph ----
    wpc,                  \* position of WriteContractedGraph
    ndebug,               \* TRUE in a build with NDEBUG defined
    max_node_id,          \* the parameter of the same name
    input_edge_list,      \* contracted_edge_list as handed in
    contracted_edge_list, \* contracted_edge_list (sorted in place)
    max_used_node_id,
    node_array,           \* node_array[i+1] models node_array[i].first_edge
    edges_crc32,
    hsgr,                 \* the cells written to the .hsgr file, in order
    edge_cursor,          \* the index of the edge loop (0-based)
    number_of_used_edges,
    write_ret,            \* the value WriteContractedGraph returned
    \* ---- extractor::run, the parse loop ----
    ppc,                  \* position of the parse loop
    buffers_read,         \* how many buffers reader.read() has handed out
    osm_elements,         \* the item types of the current buffer's elements
    buffers_seen,         \* the item types of every buffer handed out so far
    tasks,                \* the blocked ranges of the parallel_for: [x, end]
    resulting_nodes,      \* concurrent_vector of (index, parsed node)
    resulting_ways,       \* concurrent_vector of (index, parsed way)
    resulting_restrictions, \* concurrent_vector of parsed restrictions
    number_of_nodes,      \* the four atomic counters
    number_of_ways,
    number_of_relations,
    number_of_others,
    callback_calls,       \* the calls made on extractor_callbacks, in order
    \* ---- extractor::run (control flow) ----
    xpc,                  \* position of extractor::run
    throw_at,             \* the step of run that throws a std::exception, if any
    generate_edge_lookup, \* config.generate_edge_lookup
    edges_parsed,         \* !extraction_containers.all_edges_list.empty()
    osrm_has_edges,       \* the .osrm file holds at least one edge
    node_based_graph,     \* what LoadNodeBasedGraph returned: "graph" or "null"
    extract_ret,          \* the value extractor::run returned
    \* ---- extractor::FindComponents ----
    cpc,                  \* position of FindComponents
    fc_max_edge_id,       \* the parameter max_edge_id
    fc_input_edge_list,   \* the parameter input_edge_list
    input_nodes,          \* the parameter input_nodes (annotated in place)
    fc_edges,             \* the local vector edges, as pushed
    uncontractor_graph,   \* the graph built from the sorted, unique edges
    component_search,     \* what TarjanSCC::run found
    \* ---- the contractor (ContractGraph) and WriteCoreNodeMarker ----
    kpc,                  \* position of the contraction
    contract_nodes,       \* number of nodes the contractor was built with
    contract_core_factor, \* the core factor handed to Contractor::Run, in tenths
    live_nodes,           \* the nodes of the live graph
    live_edges,           \* the edges of the live graph
    round_graph,          \* the live graph as the current round found it
    selected,             \* the independent set of the current round
    simulated,            \* the shortcuts each selected node would add
    to_commit,            \* the surviving contractions not yet committed
    is_core_node,         \* the core marker GetCoreMarker hands out
    core_file             \* the cells written to the .core file, in order

runVars == <<rpc, core_factor, use_cached_priority, segment_speed_given,
             seg_lookup_opens, penalties_open, events, abort_reason, node_levels>>

sideCarVars == <<in_segments, penalties_file, segments_file, penalties_pos, segments_pos>>

loadVars == <<lpc, in_edges, in_max_edge_id, edges_file, update_edge_weights,
              csv_rows, segment_speed_lookup, number_of_edges, max_edge_id,
              read_pos, edge_based_edge_list, penalties_read, segments_read,
              load_ret, sideCarVars>>

writeVars == <<wpc, ndebug, max_node_id, input_edge_list, contracted_edge_list,
               max_used_node_id, node_array, edges_crc32, hsgr, edge_cursor,
               number_of_used_edges, write_ret>>

parseVars == <<ppc, buffers_read, osm_elements, buffers_seen, tasks, resulting_nodes,
               resulting_ways, resulting_restrictions, number_of_nodes,
               number_of_ways, number_of_relations, number_of_others,
               callback_calls>>

extractVars == <<xpc, throw_at, generate_edge_lookup, edges_parsed, osrm_has_edges,
                 node_based_graph, extract_ret>>

compVars == <<cpc, fc_max_edge_id, fc_input_edge_list, input_nodes, fc_edges,
              uncontractor_graph, component_search>>

contractVars == <<kpc, contract_nodes, contract_core_factor, live_nodes, live_edges,
                  round_graph, selected, simulated, to_commit, is_core_node,
                  core_file>>

restVars == <<parseVars, extractVars, compVars, contractVars>>

vars == <<runVars, loadVars, writeVars, restVars>>

\* ------------------------------------------------------------------------
\* Bounds of the model
\* ------------------------------------------------------------------------

\* Most edge records of the .edges file in a run of Prepare::Run.
MaxEdges == 2

\* Longest edge-based edge list handed to WriteEdgeBasedGraph.
MaxListLen == 1

\* Most rows of the segment-speed CSV file.
MaxRows == 1

\* Longest contracted edge list handed to WriteContractedGraph.
MaxContractedEdges == 2

\* Largest max_node_id handed to WriteContractedGraph.
MaxNodeId == 2

\* ------------------------------------------------------------------------
\* Helpers
\* ------------------------------------------------------------------------

Max(a, b) == IF a >= b THEN a ELSE b

None == "none"

\* ------------------------------------------------------------------------
\* Idle values: the state of a part of the program that is not running
\* ------------------------------------------------------------------------

RunIdle ==
    /\ rpc = "idle"
    /\ core_factor = 0
    /\ use_cached_priority = FALSE
    /\ segment_speed_given = FALSE
    /\ seg_lookup_opens = FALSE
    /\ penalties_open = FALSE
    /\ events = <<>>
    /\ abort_reason = None
    /\ node_levels = "empty"

LoadIdle ==
    /\ lpc = "idle"
    /\ in_edges = <<>>
    /\ in_max_edge_id = 0
    /\ edges_file = <<>>
    /\ update_edge_weights = FALSE
    /\ csv_rows = <<>>
    /\ segment_speed_lookup = {}
    /\ number_of_edges = 0
    /\ max_edge_id = 0
    /\ read_pos = 1
    /\ edge_based_edge_list = <<>>
    /\ penalties_read = <<>>
    /\ segments_read = <<>>
    /\ in_segments = <<>>
    /\ penalties_file = <<>>
    /\ segments_file = <<>>
    /\ penalties_pos = 1
    /\ segments_pos = 1
    /\ load_ret = None

WriteIdle ==
    /\ wpc = "idle"
    /\ ndebug = TRUE
    /\ max_node_id = 0
    /\ input_edge_list = <<>>
    /\ contracted_edge_list = <<>>
    /\ max_used_node_id = 0
    /\ node_array = <<>>
    /\ edges_crc32 = 0
    /\ hsgr = <<>>
    /\ edge_cursor = 0
    /\ number_of_used_edges = 0
    /\ write_ret = None

ParseIdle ==
    /\ ppc = "idle"
    /\ buffers_read = 0
    /\ osm_elements = <<>>
    /\ buffers_seen = <<>>
    /\ tasks = <<>>
    /\ resulting_nodes = <<>>
    /\ resulting_ways = <<>>
    /\ resulting_restrictions = <<>>
    /\ number_of_nodes = 0
    /\ number_of_ways = 0
    /\ number_of_relations = 0
    /\ number_of_others = 0
    /\ callback_calls = <<>>

ExtractIdle ==
    /\ xpc = "idle"
    /\ throw_at = None
    /\ generate_edge_lookup = FALSE
    /\ edges_parsed = FALSE
    /\ osrm_has_edges = FALSE
    /\ node_based_graph = None
    /\ extract_ret = None

CompIdle ==
    /\ cpc = "idle"
    /\ fc_max_edge_id = 0
    /\ fc_input_edge_list = <<>>
    /\ input_nodes = <<>>
    /\ fc_edges = <<>>
    /\ uncontractor_graph = None
    /\ component_search = None

ContractIdle ==
    /\ kpc = "idle"
    /\ contract_nodes = 0
    /\ contract_core_factor = 0
    /\ live_nodes = {}
    /\ live_edges = {}
    /\ round_graph = None
    /\ selected = {}
    /\ simulated = {}
    /\ to_commit = {}
    /\ is_core_node = <<>>
    /\ core_file = <<>>

RestIdle == ParseIdle /\ ExtractIdle /\ CompIdle /\ ContractIdle

\* ========================================================================
\* Prepare::Run (control flow)
\* ========================================================================

\* The core factors tried, in tenths: below the range, its two ends, its
\* middle, and above the range.
CoreFactors == {-1, 0, 5, 10, 11}

\* Run's check of config.core_factor (1.0 is 10 tenths).
CoreFactorRejected_NoLowerBound(f) == f > 10

CoreFactorRejected(f) == f > 10 \/ f < 0

\* LoadEdgeExpandedGraph: update_edge_weights = segment_speed_filename != "".
UpdateEdgeWeights(speed_file_given) == speed_file_given

\* LoadEdgeExpandedGraph: the side-car streams are opened only when updating,
\* and the function throws when either did not open.
SideCarMissing_BothNeeded(update, seg_ok, pen_ok) == update /\ (~seg_ok /\ ~pen_ok)

SideCarMissing(update, seg_ok, pen_ok) == update /\ (~seg_ok \/ ~pen_ok)

InitRun ==
    /\ rpc = "start"
    /\ core_factor \in CoreFactors
    /\ use_cached_priority \in BOOLEAN
    /\ segment_speed_given \in BOOLEAN
    /\ seg_lookup_opens \in BOOLEAN
    /\ penalties_open \in BOOLEAN
    /\ events = <<>>
    /\ abort_reason = None
    /\ node_levels = "empty"
    /\ LoadIdle
    /\ WriteIdle
    /\ RestIdle

RunFrame == UNCHANGED <<core_factor, use_cached_priority, segment_speed_given,
                        seg_lookup_opens, penalties_open, loadVars, writeVars,
                        restVars>>

\* Run, lines 73-76: the range check of the core factor.
RunCheckCoreFactor ==
    /\ rpc = "start"
    /\ IF CoreFactorRejected(core_factor)
       THEN /\ rpc' = "threw"
            /\ abort_reason' = "core_factor"
       ELSE /\ rpc' = "load_open"
            /\ abort_reason' = abort_reason
    /\ UNCHANGED <<events, node_levels>>
    /\ RunFrame

\* Run, line 86, into LoadEdgeExpandedGraph, lines 143-160: the .edges stream
\* is opened, then (only when updating) the two side-car streams, and the
\* function throws when one of them did not open. Run does not catch.
RunLoadOpen ==
    /\ rpc = "load_open"
    /\ LET update == UpdateEdgeWeights(segment_speed_given)
           opens  == <<"open_read:edges">> \o
                     (IF update
                      THEN <<"open_read:edge_segment_lookup",
                             "open_read:edge_penalties">>
                      ELSE <<>>)
       IN  /\ events' = events \o opens
           /\ IF SideCarMissing(update, seg_lookup_opens, penalties_open)
              THEN /\ rpc' = "threw"
                   /\ abort_reason' = "side_car"
              ELSE /\ rpc' = "load_read"
                   /\ abort_reason' = abort_reason
    /\ UNCHANGED node_levels
    /\ RunFrame

\* LoadEdgeExpandedGraph, lines 162-271: the header, the speed table (when
\* updating) and then the edge records, each with its side-car records
\* (when updating).
RunLoadRead ==
    /\ rpc = "load_read"
    /\ \E n \in 0..MaxEdges :
         LET update == UpdateEdgeWeights(segment_speed_given)
             one    == <<"read:edge_record">> \o
                       (IF update
                        THEN <<"read:edge_penalties", "read:edge_segment_lookup">>
                        ELSE <<>>)
             body[k \in 0..MaxEdges] == IF k = 0 THEN <<>> ELSE body[k - 1] \o one
         IN  events' = events \o <<"read:edges_header">> \o
                       (IF update THEN <<"read:segment_speed_csv">> ELSE <<>>) \o
                       body[n]
    /\ rpc' = "levels"
    /\ UNCHANGED <<abort_reason, node_levels>>
    /\ RunFrame

\* Run, lines 93-98: ReadNodeLevels only with use_cached_priority.
RunReadNodeLevels ==
    /\ rpc = "levels"
    /\ IF use_cached_priority
       THEN /\ events' = events \o <<"open_read:level", "read:level">>
            /\ node_levels' = "from_file"
       ELSE /\ events' = events
            /\ node_levels' = "empty"
    /\ rpc' = "contract"
    /\ UNCHANGED abort_reason
    /\ RunFrame

\* Run, lines 99-101, and ContractGraph, lines 451-465: the contractor gets the
\* edge list and Run's level vector, and hands back its own level vector.
RunContractGraph ==
    /\ rpc = "contract"
    /\ events' = events \o <<"contract:levels_" \o node_levels>>
    /\ node_levels' = "from_contractor"
    /\ rpc' = "write_hsgr"
    /\ UNCHANGED abort_reason
    /\ RunFrame

\* Run, line 106: WriteContractedGraph.
RunWriteContractedGraph ==
    /\ rpc = "write_hsgr"
    /\ events' = events \o <<"open_write:hsgr", "write:hsgr">>
    /\ rpc' = "write_core"
    /\ UNCHANGED <<abort_reason, node_levels>>
    /\ RunFrame

\* Run, line 107: WriteCoreNodeMarker.
RunWriteCoreNodeMarker ==
    /\ rpc = "write_core"
    /\ events' = events \o <<"open_write:core", "write:core">>
    /\ rpc' = "write_levels"
    /\ UNCHANGED <<abort_reason, node_levels>>
    /\ RunFrame

\* Run, lines 108-122, with the condition of line 108 dropped.
RunWriteNodeLevels_Always ==
    /\ rpc = "write_levels"
    /\ events' = events \o <<"open_write:level", "write:level">>
    /\ rpc' = "returned"
    /\ UNCHANGED <<abort_reason, node_levels>>
    /\ RunFrame

\* Run, lines 108-122: WriteNodeLevels unless use_cached_priority; return 0.
RunWriteNodeLevels ==
    /\ rpc = "write_levels"
    /\ IF ~use_cached_priority
       THEN events' = events \o <<"open_write:level", "write:level">>
       ELSE events' = events
    /\ rpc' = "returned"
    /\ UNCHANGED <<abort_reason, node_levels>>
    /\ RunFrame

NextRun ==
    \/ RunCheckCoreFactor
    \/ RunLoadOpen
    \/ RunLoadRead
    \/ RunReadNodeLevels
    \/ RunContractGraph
    \/ RunWriteContractedGraph
    \/ RunWriteCoreNodeMarker
    \/ RunWriteNodeLevels

SpecRun == InitRun /\ [][NextRun]_vars

\* ---- helpers for statements about the event log ----

HasEvent(e) == \E i \in 1..Len(events) : events[i] = e

IsPrefixOf(p, s) ==
    /\ Len(p) <= Len(s)
    /\ \A i \in 1..Len(p) : s[i] = p[i]

OutputEvents == {"open_write:hsgr", "write:hsgr", "open_write:core", "write:core",
                 "open_write:level", "write:level"}

NoOutputYet == \A i \in 1..Len(events) : events[i] \notin OutputEvents

SideCarEvents == {"open_read:edge_segment_lookup", "open_read:edge_penalties",
                  "read:edge_penalties", "read:edge_segment_lookup",
                  "read:segment_speed_csv"}

\* ------------------------------------------------------------------------
\* C1: with core_factor < 0.0 or core_factor > 1.0 Run throws at its range
\* check with nothing done yet: no file opened (input or output), no edge
\* loaded, no contraction started. With core_factor in [0.0, 1.0], both ends
\* included, the range check never makes Run throw.
\* ------------------------------------------------------------------------
C1_CoreFactorRange ==
    /\ (core_factor < 0 \/ core_factor > 10) =>
          /\ rpc \in {"start", "threw"}
          /\ events = <<>>
          /\ rpc = "threw" => abort_reason = "core_factor"
    /\ (core_factor >= 0 /\ core_factor <= 10) =>
          /\ abort_reason # "core_factor"
          /\ rpc # "start" => (rpc # "threw" \/ abort_reason = "side_car")

\* A run that threw on a core factor below the range.
C1_Witness ==
    /\ rpc = "threw"
    /\ abort_reason = "core_factor"
    /\ core_factor < 0

\* ------------------------------------------------------------------------
\* C7: the reweighting path runs iff a segment-speed file is given. Given the
\* file and a side-car file that cannot be opened, the load throws before any
\* edge record is read (and before the header and the speed table are), and
\* Run opens and writes no output file. Without the file no side-car file and
\* no speed table is ever opened or read; with it, once the load is through,
\* the speed table was read and every edge record read was followed by its
\* penalty record and its segment record.
\* ------------------------------------------------------------------------
C7_SideCarsRequired ==
    LET past_open == rpc \notin {"start", "load_open"} /\ abort_reason # "core_factor"
        loaded    == rpc \notin {"start", "load_open", "load_read", "threw"}
    IN
    /\ (segment_speed_given /\ (~seg_lookup_opens \/ ~penalties_open) /\ past_open) =>
          /\ rpc = "threw"
          /\ abort_reason = "side_car"
          /\ ~HasEvent("read:edge_record")
          /\ ~HasEvent("read:edges_header")
          /\ NoOutputYet
    /\ ~segment_speed_given =>
          /\ \A i \in 1..Len(events) : events[i] \notin SideCarEvents
          /\ abort_reason # "side_car"
    /\ (segment_speed_given /\ loaded) =>
          /\ HasEvent("read:segment_speed_csv")
          /\ \A i \in 1..Len(events) :
                events[i] = "read:edge_record" =>
                   /\ i + 2 <= Len(events)
                   /\ events[i + 1] = "read:edge_penalties"
                   /\ events[i + 2] = "read:edge_segment_lookup"

\* A load that threw although one of the two side-car files did open.
C7_Witness ==
    /\ rpc = "threw"
    /\ abort_reason = "side_car"
    /\ seg_lookup_opens
    /\ ~penalties_open

\* ========================================================================
\* extractor::WriteEdgeBasedGraph and Prepare::LoadEdgeExpandedGraph (data)
\* ========================================================================

\* The edge-based edges the extractor may hand to WriteEdgeBasedGraph.
EdgeDomain ==
    { [source |-> 0, target |-> 1, edge_id |-> 0, weight |-> 7,
       forward |-> TRUE, backward |-> FALSE],
      [source |-> 1, target |-> 0, edge_id |-> 1, weight |-> 12,
       forward |-> FALSE, backward |-> TRUE] }

\* The max edge id the extractor hands over (no edge count equals it).
MaxEdgeIds == {5}

\* External (OSM) node ids of the segments.
OsmNodes == {1, 2}

\* Speeds of the CSV rows, in km/h.
Speeds == {0, 32, 72}

\* The fixed penalties of the .edge_penalties file.
Penalties == {0, 3}

\* The (length in metres, factory-time weight) pairs of the segments.
SegmentData == { [length |-> 100, weight |-> 36], [length |-> 0, weight |-> 1] }

\* The node sequences of the segment records: one node, one segment, and
\* two segments of opposite directions.
NodePaths == { <<1>>, <<1, 2>>, <<1, 2, 1>> }

\* All sequences over S of length at most n.
SeqsUpTo(S, n) == UNION { [1..k -> S] : k \in 0..n }

\* A record of .edge_segment_lookup as the loader reads it: the node count,
\* the first node id, then (node id, length, weight) per further node.
SegmentRecords ==
    UNION { { [num_osm_nodes |-> Len(p),
               first |-> p[1],
               rest |-> [i \in 1..(Len(p) - 1) |->
                           [node |-> p[i + 1], length |-> d[i].length,
                            weight |-> d[i].weight]]] :
              d \in [1..(Len(p) - 1) -> SegmentData] } : p \in NodePaths }

\* The rows of the three-column CSV file: from_node, to_node, speed.
CsvRowDomain ==
    { r \in [from_node : OsmNodes, to_node : OsmNodes, speed : Speeds] :
        r.from_node # r.to_node }

\* What a resize of the list default-constructs (zeroed fields).
DefaultEdge ==
    [source |-> 0, target |-> 0, edge_id |-> 0, weight |-> 0,
     forward |-> FALSE, backward |-> FALSE]

\* The weight field of EdgeBasedEdge is 30 bits wide.
WeightBits == 30

ToWeightField(x) == x % (2 ^ WeightBits)

Bit(b) == IF b THEN 1 ELSE 0

\* The bytes of one EdgeBasedEdge, field by field in layout order, as the
\* char* cast of the writer puts them in the file.
EdgeBytes(e) ==
    <<e.source, e.target, e.edge_id, e.weight, Bit(e.forward), Bit(e.backward)>>

\* The EdgeBasedEdge the reader's char* cast makes of such bytes.
EdgeFromBytes(b) ==
    [source |-> b[1], target |-> b[2], edge_id |-> b[3], weight |-> b[4],
     forward |-> (b[5] = 1), backward |-> (b[6] = 1)]

FingerPrintValid == "fingerprint"

Cell(type, v) == [type |-> type, v |-> v]

\* WriteEdgeBasedGraph, lines 588-608: fingerprint, edge count, max edge id,
\* then one record per edge in list order.
EdgesFileOf(list, max_id) ==
    << Cell("FingerPrint", FingerPrintValid),
       Cell("size_t", Len(list)),
       Cell("size_t", max_id) >> \o
    [i \in 1..Len(list) |-> Cell("EdgeBasedEdge", EdgeBytes(list[i]))]

\* edge_based_edge_list.resize(n) on an empty list.
Resized(n) == [i \in 1..n |-> DefaultEdge]

\* The key a CSV row is stored under: make_pair(from_node_id, to_node_id).
RowKey(from, to) == <<from, to>>

\* The key a segment is looked up under: make_pair(previous, this).
SegmentKey_Unordered(previous, this) ==
    IF previous <= this THEN <<previous, this>> ELSE <<this, previous>>

SegmentKey(previous, this) == <<previous, this>>

\* segment_speed_lookup[key] = speed: the table is a set of (key, speed)
\* entries with one entry per key.
TableInsert(table, key, speed) ==
    { e \in table : e.key # key } \cup { [key |-> key, speed |-> speed] }

RECURSIVE TableOfRows(_, _)
TableOfRows(table, rows) ==
    IF rows = <<>>
    THEN table
    ELSE TableOfRows(TableInsert(table,
                                 RowKey(Head(rows).from_node, Head(rows).to_node),
                                 Head(rows).speed),
                     Tail(rows))

TableHas(table, key) == \E e \in table : e.key = key

TableAt(table, key) == (CHOOSE e \in table : e.key = key).speed

\* What static_cast<int> may make of an infinity or a NaN (undefined): some
\* int, negative or positive.
CastOfNonFinite == {-8, 9}

\* Lines 236-238: max(1, (int) floor(length * 10 / (speed / 3.6) + .5)), in
\* exact arithmetic floor((72 * length + speed) / (2 * speed)); the set of
\* the values the expression may take (one value unless speed is 0).
NewSegmentWeights_NoFloor(length, speed) ==
    IF speed = 0
    THEN { Max(1, c) : c \in CastOfNonFinite }
    ELSE { (72 * length + speed) \div (2 * speed) }

NewSegmentWeights(length, speed) ==
    IF speed = 0
    THEN { Max(1, c) : c \in CastOfNonFinite }
    ELSE { Max(1, (72 * length + speed) \div (2 * speed)) }

\* Lines 208-260: the values new_weight may have after the segment loop over
\* a record, from the given previous node and running sum.
RECURSIVE NewWeights(_, _, _, _)
NewWeights(table, previous, rest, sum) ==
    IF rest = <<>>
    THEN { sum }
    ELSE LET seg  == Head(rest)
             key  == SegmentKey(previous, seg.node)
             adds == IF TableHas(table, key)
                     THEN NewSegmentWeights(seg.length, TableAt(table, key))
                     ELSE { seg.weight }
         IN  UNION { NewWeights(table, seg.node, Tail(rest), sum + a) : a \in adds }

\* The values of one record of .edge_segment_lookup, in file order: the node
\* count, the first node id, then node id, length and weight per further
\* node.
SegmentValues(rec) ==
    <<rec.num_osm_nodes, rec.first>> \o
    [i \in 1..(3 * Len(rec.rest)) |->
        LET seg == rec.rest[(i + 2) \div 3]
        IN  CASE i % 3 = 1 -> seg.node
              [] i % 3 = 2 -> seg.length
              [] OTHER     -> seg.weight]

\* The two side-car files of an edge list: one penalty and one segment
\* record per edge, in the order of the list.
RECURSIVE SegmentsFileOf(_)
SegmentsFileOf(recs) ==
    IF recs = <<>> THEN <<>>
    ELSE SegmentValues(Head(recs)) \o SegmentsFileOf(Tail(recs))

SideCarFiles(n) ==
    { [penalties |-> [k \in 1..n |-> w[k].penalty],
       records   |-> [k \in 1..n |-> w[k].rec],
       segments  |-> SegmentsFileOf([k \in 1..n |-> w[k].rec])] :
      w \in [1..n -> [penalty : Penalties, rec : SegmentRecords]] }

\* istream::read of one value at pos; past the end of the file the read
\* fails, which no run on the files above does.
ValueAt(file, pos) == IF pos \in 1..Len(file) THEN file[pos] ELSE 0

\* Lines 209-259, the reads: num_osm_nodes, previous_osm_node_id, then
\* num_osm_nodes - 1 times this_osm_node_id, segment_length, segment_weight.
ReadSegmentRecord_CountTimes(file, pos) ==
    LET count == ValueAt(file, pos)
    IN  [rec  |-> [num_osm_nodes |-> count,
                   first |-> ValueAt(file, pos + 1),
                   rest |-> [i \in 1..count |->
                               [node   |-> ValueAt(file, pos + 3 * i - 1),
                                length |-> ValueAt(file, pos + 3 * i),
                                weight |-> ValueAt(file, pos + 3 * i + 1)]]],
         next |-> pos + 2 + 3 * count]

ReadSegmentRecord(file, pos) ==
    LET count == ValueAt(file, pos)
    IN  [rec  |-> [num_osm_nodes |-> count,
                   first |-> ValueAt(file, pos + 1),
                   rest |-> [i \in 1..(count - 1) |->
                               [node   |-> ValueAt(file, pos + 3 * i - 1),
                                length |-> ValueAt(file, pos + 3 * i),
                                weight |-> ValueAt(file, pos + 3 * i + 1)]]],
         next |-> pos + 2 + 3 * (count - 1)]

InitLoad ==
    /\ lpc = "extract"
    /\ in_edges = <<>>
    /\ in_max_edge_id = 0
    /\ edges_file = <<>>
    /\ update_edge_weights = FALSE
    /\ csv_rows = <<>>
    /\ segment_speed_lookup = {}
    /\ number_of_edges = 0
    /\ max_edge_id = 0
    /\ read_pos = 1
    /\ edge_based_edge_list = <<>>
    /\ penalties_read = <<>>
    /\ segments_read = <<>>
    /\ in_segments = <<>>
    /\ penalties_file = <<>>
    /\ segments_file = <<>>
    /\ penalties_pos = 1
    /\ segments_pos = 1
    /\ load_ret = None
    /\ RunIdle
    /\ WriteIdle
    /\ RestIdle

\* extractor::WriteEdgeBasedGraph(path, max_edge_id, edge_based_edge_list).
WriteEdgeBasedGraph ==
    /\ lpc = "extract"
    /\ \E list \in SeqsUpTo(EdgeDomain, MaxListLen), max_id \in MaxEdgeIds :
          /\ in_edges' = list
          /\ in_max_edge_id' = max_id
          /\ edges_file' = EdgesFileOf(list, max_id)
    /\ lpc' = "open"
    /\ UNCHANGED <<update_edge_weights, csv_rows, segment_speed_lookup,
                   number_of_edges, max_edge_id, read_pos, edge_based_edge_list,
                   penalties_read, segments_read, load_ret, runVars, writeVars, restVars,
                   sideCarVars>>

\* LoadEdgeExpandedGraph, lines 143-160: the streams are opened; with a
\* segment-speed file and a side-car stream that did not open, it throws.
LoadOpen ==
    /\ lpc = "open"
    /\ \E given \in BOOLEAN, seg_ok \in BOOLEAN, pen_ok \in BOOLEAN :
          /\ update_edge_weights' = UpdateEdgeWeights(given)
          /\ lpc' = IF SideCarMissing(UpdateEdgeWeights(given), seg_ok, pen_ok)
                    THEN "threw"
                    ELSE "header"
          /\ IF UpdateEdgeWeights(given) /\ seg_ok /\ pen_ok
             THEN \E files \in SideCarFiles(Len(in_edges)) :
                     /\ in_segments' = files.records
                     /\ penalties_file' = files.penalties
                     /\ segments_file' = files.segments
             ELSE UNCHANGED <<in_segments, penalties_file, segments_file>>
    /\ UNCHANGED <<in_edges, in_max_edge_id, edges_file, csv_rows,
                   segment_speed_lookup, number_of_edges, max_edge_id, read_pos,
                   edge_based_edge_list, penalties_read, segments_read, load_ret,
                   penalties_pos, segments_pos, runVars, writeVars, restVars>>

\* Lines 162-173: fingerprint, edge count and max edge id are read, and the
\* list is resized to the edge count.
LoadHeader ==
    /\ lpc = "header"
    /\ number_of_edges' = edges_file[2].v
    /\ max_edge_id' = edges_file[3].v
    /\ read_pos' = 4
    /\ edge_based_edge_list' = Resized(edges_file[2].v)
    /\ lpc' = "speeds"
    /\ UNCHANGED <<in_edges, in_max_edge_id, edges_file, update_edge_weights,
                   csv_rows, segment_speed_lookup, penalties_read, segments_read,
                   load_ret, runVars, writeVars, restVars,
                   sideCarVars>>

\* Lines 175-190: with a segment-speed file, every row of it is entered in
\* the table under (from_node, to_node); a later row replaces an earlier one.
LoadSpeedTable ==
    /\ lpc = "speeds"
    /\ IF update_edge_weights
       THEN \E rows \in SeqsUpTo(CsvRowDomain, MaxRows) :
               /\ csv_rows' = rows
               /\ segment_speed_lookup' = TableOfRows({}, rows)
       ELSE UNCHANGED <<csv_rows, segment_speed_lookup>>
    /\ lpc' = "edges"
    /\ UNCHANGED <<in_edges, in_max_edge_id, edges_file, update_edge_weights,
                   number_of_edges, max_edge_id, read_pos, edge_based_edge_list,
                   penalties_read, segments_read, load_ret, runVars, writeVars, restVars,
                   sideCarVars>>

\* Lines 196-266, one pass of the loop: the next edge record is read; when
\* updating, the next penalty and the next segment record are read and the
\* weight is replaced by penalty + new_weight; the record is appended.
LoadEdge ==
    /\ lpc = "edges"
    /\ number_of_edges > 0
    /\ LET inbuffer == EdgeFromBytes(edges_file[read_pos].v)
       IN  IF update_edge_weights
           THEN LET fixed_penalty == ValueAt(penalties_file, penalties_pos)
                    segment == ReadSegmentRecord(segments_file, segments_pos)
                    rec == segment.rec
                IN  \E new_weight \in NewWeights(segment_speed_lookup, rec.first,
                                                 rec.rest, 0) :
                       /\ edge_based_edge_list' =
                             Append(edge_based_edge_list,
                                    [inbuffer EXCEPT !.weight =
                                        ToWeightField(fixed_penalty + new_weight)])
                       /\ penalties_read' = Append(penalties_read, fixed_penalty)
                       /\ segments_read' = Append(segments_read, rec)
                       /\ penalties_pos' = penalties_pos + 1
                       /\ segments_pos' = segment.next
           ELSE /\ edge_based_edge_list' = Append(edge_based_edge_list, inbuffer)
                /\ UNCHANGED <<penalties_read, segments_read, penalties_pos,
                               segments_pos>>
    /\ read_pos' = read_pos + 1
    /\ number_of_edges' = number_of_edges - 1
    /\ UNCHANGED <<lpc, in_edges, in_max_edge_id, edges_file, update_edge_weights,
                   csv_rows, segment_speed_lookup, max_edge_id, load_ret,
                   in_segments, penalties_file, segments_file, runVars,
                   writeVars, restVars>>

\* Lines 268-270: the loop is over; max_edge_id is returned.
LoadReturn ==
    /\ lpc = "edges"
    /\ number_of_edges = 0
    /\ lpc' = "done"
    /\ load_ret' = max_edge_id
    /\ UNCHANGED <<in_edges, in_max_edge_id, edges_file, update_edge_weights,
                   csv_rows, segment_speed_lookup, number_of_edges, max_edge_id,
                   read_pos, edge_based_edge_list, penalties_read, segments_read,
                   runVars, writeVars, restVars,
                   sideCarVars>>

NextLoad ==
    \/ WriteEdgeBasedGraph
    \/ LoadOpen
    \/ LoadHeader
    \/ LoadSpeedTable
    \/ LoadEdge
    \/ LoadReturn

SpecLoad == InitLoad /\ [][NextLoad]_vars

\* ---- helpers for statements about the loaded list ----

\* The number of loop passes made so far.
EdgesProcessed == read_pos - 4

\* The record the k-th loop pass appended (the passes append at the end).
LoadedEdge(k) ==
    edge_based_edge_list[Len(edge_based_edge_list) - EdgesProcessed + k]

\* The node a segment of a record starts at.
SegmentStart(rec, i) == IF i = 1 THEN rec.first ELSE rec.rest[i - 1].node

\* x rounded to the nearest integer, halves up, for x = num / den >= 0.
RoundHalfUp(num, den) ==
    LET q == num \div den
    IN  IF 2 * (num % den) >= den THEN q + 1 ELSE q

\* max(1, round-half-up(L * 10 / (speed / 3.6))); L * 10 / (speed / 3.6) is
\* 36 * L / speed.
ClaimedSegmentWeight(length, speed) == Max(1, RoundHalfUp(36 * length, speed))

\* The speed the table holds for the pair (a, b), or -1.
TableSpeed(a, b) ==
    IF \E e \in segment_speed_lookup : e.key = <<a, b>>
    THEN (CHOOSE e \in segment_speed_lookup : e.key = <<a, b>>).speed
    ELSE -1

\* The speed of the last CSV row (a, b, speed), or -1.
RowSpeed(a, b) ==
    LET hits == { i \in 1..Len(csv_rows) :
                    csv_rows[i].from_node = a /\ csv_rows[i].to_node = b }
    IN  IF hits = {} THEN -1
        ELSE csv_rows[CHOOSE i \in hits : \A j \in hits : j <= i].speed

\* The speed of the last CSV row (a, b, speed) or (b, a, speed), or -1.
RowSpeedEitherWay(a, b) ==
    LET hits == { i \in 1..Len(csv_rows) :
                    \/ csv_rows[i].from_node = a /\ csv_rows[i].to_node = b
                    \/ csv_rows[i].from_node = b /\ csv_rows[i].to_node = a }
    IN  IF hits = {} THEN -1
        ELSE csv_rows[CHOOSE i \in hits : \A j \in hits : j <= i].speed

\* The sum over the segments of a record of: the claimed weight at the speed
\* SpeedOf gives for the segment, or the stored weight when it gives none.
ClaimedSum(rec, SpeedOf(_, _)) ==
    LET n == Len(rec.rest)
        w(i) == LET sp == SpeedOf(SegmentStart(rec, i), rec.rest[i].node)
                IN  IF sp >= 0
                    THEN ClaimedSegmentWeight(rec.rest[i].length, sp)
                    ELSE rec.rest[i].weight
        sum[i \in 0..n] == IF i = 0 THEN 0 ELSE sum[i - 1] + w(i)
    IN  sum[n]

\* No segment of the record gets the speed 0 from SpeedOf.
NoZeroSpeed(rec, SpeedOf(_, _)) ==
    \A i \in 1..Len(rec.rest) :
        SpeedOf(SegmentStart(rec, i), rec.rest[i].node) # 0

\* ------------------------------------------------------------------------
\* C2: WriteEdgeBasedGraph of (E, M), then LoadEdgeExpandedGraph of that file
\* without a segment-speed file into an empty list: the call returns M and
\* the list equals E (same length, same records, same order).
\* ------------------------------------------------------------------------
C2_RoundTrip ==
    (lpc = "done" /\ ~update_edge_weights) =>
        /\ load_ret = in_max_edge_id
        /\ Len(edge_based_edge_list) = Len(in_edges)
        /\ edge_based_edge_list = in_edges

C5_NoZeroWeight ==
    (lpc = "done" /\ update_edge_weights) =>
        \A i \in 1..Len(edge_based_edge_list) : edge_based_edge_list[i].weight >= 1

\* ------------------------------------------------------------------------
\* C6: a row with speed 0 is never entered in the lookup table, and no
\* segment is reweighted at a table entry of speed 0.
\* ------------------------------------------------------------------------
C6_ZeroSpeedRejected ==
    /\ \A e \in segment_speed_lookup : e.speed # 0
    /\ \A k \in 1..Len(segments_read) : NoZeroSpeed(segments_read[k], TableSpeed)

\* ========================================================================
\* Prepare::WriteContractedGraph (data)
\* ========================================================================

\* The distances of the contracted edges (0: an edge the debug build warns of).
Distances == {0, 1}

\* The contracted edges over the nodes 0..max_id: no self-loops, and no node
\* id above max_id (the contractor works on max_id + 1 nodes).
QueryEdges(max_id) ==
    { e \in [source : 0..max_id, target : 0..max_id, distance : Distances] :
        e.source # e.target }

\* QueryEdge's operator<, as far as it is known: the source decides first.
QueryEdgeLess(a, b) == a.source < b.source

IsSorted(list) ==
    \A i \in 1..Len(list), j \in 1..Len(list) :
        i < j => ~QueryEdgeLess(list[j], list[i])

PermutationsOf(list) ==
    { [i \in 1..Len(list) |-> list[p[i]]] :
        p \in { q \in [1..Len(list) -> 1..Len(list)] :
                  \A i \in 1..Len(list), j \in 1..Len(list) :
                      q[i] = q[j] => i = j } }

\* tbb::parallel_sort: some ordering of the list that operator< accepts (the
\* sort is not stable).
SortResults(list) == { s \in PermutationsOf(list) : IsSorted(s) }

\* RangebasedCRC32 over the edge array: a checksum that depends on the
\* records and on their order.
EdgeCode(e) == 1 + e.source + 4 * e.target + 16 * e.distance

CRC32(list) ==
    LET sum[i \in 0..Len(list)] ==
            IF i = 0 THEN 0 ELSE sum[i - 1] + i * EdgeCode(list[i])
    IN  sum[Len(list)] % 65521

\* Lines 336-347: the largest source or target of the list, 0 for none.
MaxUsedNodeId(list) ==
    LET m[i \in 0..Len(list)] ==
            IF i = 0 THEN 0
            ELSE Max(Max(m[i - 1], list[i].source), list[i].target)
    IN  m[Len(list)]

\* Lines 365-368: the while loop that moves edge past the edges of node.
RECURSIVE SkipEdgesOf(_, _, _)
SkipEdgesOf(list, edge, node) ==
    IF edge < Len(list) /\ list[edge + 1].source = node
    THEN SkipEdgesOf(list, edge + 1, node)
    ELSE edge

\* Lines 362-371: the loop over the nodes 0..max_used; arr[i + 1] is
\* node_array[i].first_edge.
RECURSIVE FirstEdgeLoop_EndOfRun(_, _, _, _, _, _)
FirstEdgeLoop_EndOfRun(list, max_used, node, edge, position, arr) ==
    IF node > max_used
    THEN arr
    ELSE LET last_edge == edge
             next_edge == SkipEdgesOf(list, edge, node)
         IN  FirstEdgeLoop_EndOfRun(list, max_used, node + 1, next_edge,
                                    position + (next_edge - last_edge),
                                    [arr EXCEPT ![node + 1] = next_edge])

RECURSIVE FirstEdgeLoop(_, _, _, _, _, _)
FirstEdgeLoop(list, max_used, node, edge, position, arr) ==
    IF node > max_used
    THEN arr
    ELSE LET last_edge == edge
             next_edge == SkipEdgesOf(list, edge, node)
         IN  FirstEdgeLoop(list, max_used, node + 1, next_edge,
                           position + (next_edge - last_edge),
                           [arr EXCEPT ![node + 1] = position])

\* Lines 373-378: the entries max_used + 1 .. size - 1 get the edge count.
SentinelLoop_SkipsOne(arr, max_used, count) ==
    [i \in 1..Len(arr) |-> IF i - 1 >= max_used + 2 THEN count ELSE arr[i]]

SentinelLoop(arr, max_used, count) ==
    [i \in 1..Len(arr) |-> IF i - 1 >= max_used + 1 THEN count ELSE arr[i]]

\* Lines 352-378: node_array.resize(max_node_id + 2), then the two loops.
BuildNodeArray(list, max_id, max_used) ==
    SentinelLoop(FirstEdgeLoop(list, max_used, 0, 0, 0,
                               [i \in 1..(max_id + 2) |-> 0]),
                 max_used, Len(list))

\* Lines 386-392: checksum, number of nodes, number of edges.
HeaderCells_SizeFirst(crc, node_array_size, count) ==
    << Cell("node_array_size", node_array_size),
       Cell("crc32", crc),
       Cell("edge_count", count) >>

HeaderCells(crc, node_array_size, count) ==
    << Cell("crc32", crc),
       Cell("node_array_size", node_array_size),
       Cell("edge_count", count) >>

\* Lines 394-398: the node array, in one write.
NodeCells(arr) == [i \in 1..Len(arr) |-> Cell("NodeArrayEntry", arr[i])]

\* Lines 416-417 and 435: the edge array entry of an edge (no source).
EdgeArrayEntry(e) == [target |-> e.target, distance |-> e.distance]

InitWrite ==
    /\ wpc = "sort"
    /\ ndebug \in BOOLEAN
    /\ max_node_id \in 0..MaxNodeId
    /\ input_edge_list \in SeqsUpTo(QueryEdges(max_node_id), MaxContractedEdges)
    /\ contracted_edge_list = input_edge_list
    /\ max_used_node_id = 0
    /\ node_array = <<>>
    /\ edges_crc32 = 0
    /\ hsgr = <<>>
    /\ edge_cursor = 0
    /\ number_of_used_edges = 0
    /\ write_ret = None
    /\ RunIdle
    /\ LoadIdle
    /\ RestIdle

WriteFrame == UNCHANGED <<ndebug, max_node_id, input_edge_list, runVars, loadVars,
                          restVars>>

\* Lines 328-329: the list is sorted in place.
WSort ==
    /\ wpc = "sort"
    /\ contracted_edge_list' \in SortResults(contracted_edge_list)
    /\ wpc' = "open"
    /\ UNCHANGED <<max_used_node_id, node_array, edges_crc32, hsgr, edge_cursor,
                   number_of_used_edges, write_ret>>
    /\ WriteFrame

\* Lines 333-335: the .hsgr stream is opened and the fingerprint written.
WFingerprint ==
    /\ wpc = "open"
    /\ hsgr' = Append(hsgr, Cell("FingerPrint", FingerPrintValid))
    /\ wpc' = "max_used"
    /\ UNCHANGED <<contracted_edge_list, max_used_node_id, node_array, edges_crc32,
                   edge_cursor, number_of_used_edges, write_ret>>
    /\ WriteFrame

\* Lines 336-350.
WMaxUsedNodeId ==
    /\ wpc = "max_used"
    /\ max_used_node_id' = MaxUsedNodeId(contracted_edge_list)
    /\ wpc' = "node_array"
    /\ UNCHANGED <<contracted_edge_list, node_array, edges_crc32, hsgr, edge_cursor,
                   number_of_used_edges, write_ret>>
    /\ WriteFrame

\* Lines 352-378.
WBuildNodeArray ==
    /\ wpc = "node_array"
    /\ node_array' = BuildNodeArray(contracted_edge_list, max_node_id, max_used_node_id)
    /\ wpc' = "crc"
    /\ UNCHANGED <<contracted_edge_list, max_used_node_id, edges_crc32, hsgr,
                   edge_cursor, number_of_used_edges, write_ret>>
    /\ WriteFrame

\* Lines 382-384.
WChecksum ==
    /\ wpc = "crc"
    /\ edges_crc32' = CRC32(contracted_edge_list)
    /\ wpc' = "header"
    /\ UNCHANGED <<contracted_edge_list, max_used_node_id, node_array, hsgr,
                   edge_cursor, number_of_used_edges, write_ret>>
    /\ WriteFrame

\* Lines 386-392.
WHeader ==
    /\ wpc = "header"
    /\ hsgr' = hsgr \o HeaderCells(edges_crc32, Len(node_array),
                                   Len(contracted_edge_list))
    /\ wpc' = "nodes"
    /\ UNCHANGED <<contracted_edge_list, max_used_node_id, node_array, edges_crc32,
                   edge_cursor, number_of_used_edges, write_ret>>
    /\ WriteFrame

\* Lines 393-409: the node array is written when it is not empty.
WNodeArray ==
    /\ wpc = "nodes"
    /\ hsgr' = IF Len(node_array) > 0 THEN hsgr \o NodeCells(node_array) ELSE hsgr
    /\ edge_cursor' = 0
    /\ number_of_used_edges' = 0
    /\ wpc' = "edges"
    /\ UNCHANGED <<contracted_edge_list, max_used_node_id, node_array, edges_crc32,
                   write_ret>>
    /\ WriteFrame

\* Lines 412-441, one pass of the edge loop: in a debug build an edge with
\* distance <= 0 is warned of and the function returns 1; otherwise the edge
\* array entry is written and counted.
WEdge ==
    /\ wpc = "edges"
    /\ edge_cursor < Len(contracted_edge_list)
    /\ LET current_edge == EdgeArrayEntry(contracted_edge_list[edge_cursor + 1])
       IN  IF ~ndebug /\ current_edge.distance <= 0
           THEN /\ write_ret' = 1
                /\ wpc' = "returned"
                /\ UNCHANGED <<hsgr, edge_cursor, number_of_used_edges>>
           ELSE /\ hsgr' = Append(hsgr, Cell("EdgeArrayEntry", current_edge))
                /\ number_of_used_edges' = number_of_used_edges + 1
                /\ edge_cursor' = edge_cursor + 1
                /\ UNCHANGED <<write_ret, wpc>>
    /\ UNCHANGED <<contracted_edge_list, max_used_node_id, node_array, edges_crc32>>
    /\ WriteFrame

\* Lines 443-445: after the last edge, number_of_used_edges is returned.
WReturn ==
    /\ wpc = "edges"
    /\ edge_cursor = Len(contracted_edge_list)
    /\ write_ret' = number_of_used_edges
    /\ wpc' = "returned"
    /\ UNCHANGED <<contracted_edge_list, max_used_node_id, node_array, edges_crc32,
                   hsgr, edge_cursor, number_of_used_edges>>
    /\ WriteFrame

NextWrite ==
    \/ WSort
    \/ WFingerprint
    \/ WMaxUsedNodeId
    \/ WBuildNodeArray
    \/ WChecksum
    \/ WHeader
    \/ WNodeArray
    \/ WEdge
    \/ WReturn

SpecWrite == InitWrite /\ [][NextWrite]_vars

\* ---- helpers for statements about the node array ----

\* The node array is built.
NodeArrayBuilt == wpc \in {"crc", "header", "nodes", "edges", "returned"}

\* node_array[i].first_edge.
FirstEdge(i) == node_array[i + 1]

EdgeCount == Len(contracted_edge_list)

\* ------------------------------------------------------------------------
\* C8: in the node array WriteContractedGraph builds, first_edge[n + 1] >=
\* first_edge[n] for every n with n + 1 an index of the array, and the entry
\* at index max_node_id + 1 (the last) is the number of contracted edges; for
\* every list, the empty one included.
\* ------------------------------------------------------------------------
C8_FirstEdgeMonotone ==
    NodeArrayBuilt =>
        /\ \A n \in 0..(Len(node_array) - 2) : FirstEdge(n + 1) >= FirstEdge(n)
        /\ Len(node_array) >= 1
        /\ FirstEdge(max_node_id + 1) = EdgeCount
        /\ FirstEdge(Len(node_array) - 1) = EdgeCount

\* Two edges, and a node between their sources that has no edge.
C8_Witness ==
    /\ NodeArrayBuilt
    /\ node_array = <<0, 1, 1, 2>>

\* ------------------------------------------------------------------------
\* C9: the node array has max_node_id + 2 entries; for every node i <=
\* max_used_node_id the edges of the sorted list at the (0-based) positions
\* first_edge[i] .. first_edge[i + 1] - 1 are exactly the edges with source
\* i; every entry from max_used_node_id + 1 on is the edge count. So the
\* source of the edge at position p is the one node i <= max_used_node_id
\* with first_edge[i] <= p < first_edge[i + 1].
\* ------------------------------------------------------------------------
C9_NodeArrayIsCSR ==
    NodeArrayBuilt =>
        /\ Len(node_array) = max_node_id + 2
        /\ \A i \in 0..max_used_node_id :
              { p \in 0..(EdgeCount - 1) : FirstEdge(i) <= p /\ p < FirstEdge(i + 1) }
                = { p \in 0..(EdgeCount - 1) : contracted_edge_list[p + 1].source = i }
        /\ \A j \in (max_used_node_id + 1)..(max_node_id + 1) : FirstEdge(j) = EdgeCount
        /\ \A p \in 0..(EdgeCount - 1) :
              \A i \in 0..max_used_node_id :
                  (FirstEdge(i) <= p /\ p < FirstEdge(i + 1))
                      <=> (i = contracted_edge_list[p + 1].source)

\* A list handed in out of order, with two sources, below max_node_id.
C9_Witness ==
    /\ NodeArrayBuilt
    /\ EdgeCount = 2
    /\ input_edge_list # contracted_edge_list
    /\ contracted_edge_list[1].source # contracted_edge_list[2].source
    /\ max_used_node_id < max_node_id

\* ------------------------------------------------------------------------
\* C10: at every moment the cells written to .hsgr are a prefix of:
\* fingerprint, CRC32, node-array size, edge count, every node-array entry,
\* every edge record (in the order of the sorted list); the CRC32 written is
\* the checksum of the sorted list, which is an ordering of the list handed
\* in; an edge record is in the file only behind the complete node array; and
\* a call that returns behind the last edge has written all of it.
\* ------------------------------------------------------------------------
HsgrLayout ==
    << Cell("FingerPrint", FingerPrintValid),
       Cell("crc32", CRC32(contracted_edge_list)),
       Cell("node_array_size", max_node_id + 2),
       Cell("edge_count", EdgeCount) >> \o
    [i \in 1..Len(node_array) |-> Cell("NodeArrayEntry", node_array[i])] \o
    [i \in 1..EdgeCount |->
        Cell("EdgeArrayEntry", [target |-> contracted_edge_list[i].target,
                                distance |-> contracted_edge_list[i].distance])]

C10_HsgrOrder ==
    /\ IsPrefixOf(hsgr, HsgrLayout)
    /\ wpc # "sort" =>
          /\ IsSorted(contracted_edge_list)
          /\ contracted_edge_list \in PermutationsOf(input_edge_list)
    /\ \A i \in 1..Len(hsgr) :
          hsgr[i].type = "EdgeArrayEntry" =>
             /\ i > 4 + max_node_id + 2
             /\ \A j \in 5..(4 + max_node_id + 2) : hsgr[j].type = "NodeArrayEntry"
    /\ (wpc = "returned" /\ edge_cursor = EdgeCount) => hsgr = HsgrLayout

\* A complete file of two edges that were handed in out of order.
C10_Witness ==
    /\ wpc = "returned"
    /\ EdgeCount = 2
    /\ edge_cursor = 2
    /\ input_edge_list # contracted_edge_list
    /\ CRC32(input_edge_list) # CRC32(contracted_edge_list)
    /\ Len(hsgr) = 4 + (max_node_id + 2) + 2


\* ========================================================================
\* extractor::run, the parse loop (lines 159-248)
\* ========================================================================

\* Most elements of one input buffer.
MaxElements == 2

\* Most buffers the reader hands out.
MaxBuffers == 2

\* Most elements of all the buffers together.
MaxParsedElements == 3

\* osmium::item_type of an element, as the switch of line 193 tells them apart.
ItemTypes == {"node", "way", "relation", "other"}

\* The blocked ranges a parallel_for over [0, n) may run as tasks: every split
\* of the range into consecutive non-empty pieces; cuts holds the indices a
\* piece starts at (other than 0).
RangesOf(n, cuts) ==
    LET starts == {0} \cup cuts
        EndOf(b) == IF \E c \in starts : c > b
                    THEN CHOOSE c \in starts : c > b /\ \A d \in starts : d > b => c <= d
                    ELSE n
        Ordered[k \in 0..Cardinality(starts)] ==
            IF k = 0 THEN <<>>
            ELSE LET b == CHOOSE c \in starts :
                            Cardinality({d \in starts : d < c}) = k - 1
                 IN  Append(Ordered[k - 1], [x |-> b, end |-> EndOf(b)])
    IN  Ordered[Cardinality(starts)]

\* Lines 226-240: the calls of one of the three serial loops, in the order of
\* the vector it walks.
CallsOf(fn, buffer, vector) ==
    [i \in 1..Len(vector) |-> [fn |-> fn, buffer |-> buffer, element |-> vector[i]]]

InitParse ==
    /\ ppc = "read"
    /\ buffers_read = 0
    /\ osm_elements = <<>>
    /\ buffers_seen = <<>>
    /\ tasks = <<>>
    /\ resulting_nodes = <<>>
    /\ resulting_ways = <<>>
    /\ resulting_restrictions = <<>>
    /\ number_of_nodes = 0
    /\ number_of_ways = 0
    /\ number_of_relations = 0
    /\ number_of_others = 0
    /\ callback_calls = <<>>
    /\ RunIdle
    /\ LoadIdle
    /\ WriteIdle
    /\ ExtractIdle
    /\ CompIdle
    /\ ContractIdle

ParseFrame == UNCHANGED <<runVars, loadVars, writeVars, extractVars, compVars,
                          contractVars>>

\* Lines 166-182 without the clear() calls of lines 175-177.
ReadBuffer_NoClear ==
    /\ ppc = "read"
    /\ buffers_read < MaxBuffers
    /\ \E n \in 1..MaxElements :
         \E elements \in [1..n -> ItemTypes], cuts \in SUBSET (1..(n - 1)) :
            /\ number_of_nodes + number_of_ways + number_of_relations
                  + number_of_others + n <= MaxParsedElements
            /\ osm_elements' = elements
            /\ buffers_seen' = Append(buffers_seen, elements)
            /\ tasks' = RangesOf(n, cuts)
    /\ buffers_read' = buffers_read + 1
    /\ ppc' = "parse"
    /\ UNCHANGED <<resulting_nodes, resulting_ways, resulting_restrictions,
                   number_of_nodes, number_of_ways, number_of_relations,
                   number_of_others, callback_calls>>
    /\ ParseFrame

\* Lines 166-182: reader.read() hands out a buffer; its elements are listed,
\* the three vectors are cleared and the parallel_for splits the index range.
ReadBuffer ==
    /\ ppc = "read"
    /\ buffers_read < MaxBuffers
    /\ \E n \in 1..MaxElements :
         \E elements \in [1..n -> ItemTypes], cuts \in SUBSET (1..(n - 1)) :
            /\ number_of_nodes + number_of_ways + number_of_relations
                  + number_of_others + n <= MaxParsedElements
            /\ osm_elements' = elements
            /\ buffers_seen' = Append(buffers_seen, elements)
            /\ tasks' = RangesOf(n, cuts)
    /\ buffers_read' = buffers_read + 1
    /\ resulting_nodes' = <<>>
    /\ resulting_ways' = <<>>
    /\ resulting_restrictions' = <<>>
    /\ ppc' = "parse"
    /\ UNCHANGED <<number_of_nodes, number_of_ways, number_of_relations,
                   number_of_others, callback_calls>>
    /\ ParseFrame

\* Lines 189-222, one pass of the loop of task t: the element at x is parsed
\* and its result is pushed on the vector of its type, a node or a way with
\* its index x. (A restriction is pushed without an index; the model keeps
\* the index of the relation it was parsed from to tell the results apart.)
ParseElement(t) ==
    /\ ppc = "parse"
    /\ tasks[t].x < tasks[t].end
    /\ LET x == tasks[t].x
           type == osm_elements[x + 1]
       IN  /\ resulting_nodes' = IF type = "node"
                                 THEN Append(resulting_nodes, x)
                                 ELSE resulting_nodes
           /\ resulting_ways' = IF type = "way"
                                THEN Append(resulting_ways, x)
                                ELSE resulting_ways
           /\ resulting_restrictions' = IF type = "relation"
                                        THEN Append(resulting_restrictions, x)
                                        ELSE resulting_restrictions
           /\ number_of_nodes' = number_of_nodes + (IF type = "node" THEN 1 ELSE 0)
           /\ number_of_ways' = number_of_ways + (IF type = "way" THEN 1 ELSE 0)
           /\ number_of_relations' =
                 number_of_relations + (IF type = "relation" THEN 1 ELSE 0)
           /\ number_of_others' = number_of_others + (IF type = "other" THEN 1 ELSE 0)
           /\ tasks' = [tasks EXCEPT ![t].x = x + 1]
    /\ UNCHANGED <<ppc, buffers_read, osm_elements, buffers_seen, callback_calls>>
    /\ ParseFrame

\* Lines 223-231 without the wait for the parallel_for to return.
PutNodes_Early ==
    /\ ppc = "parse"
    /\ callback_calls' =
          callback_calls \o CallsOf("ProcessNode", buffers_read, resulting_nodes)
    /\ ppc' = "ways"
    /\ UNCHANGED <<buffers_read, osm_elements, buffers_seen, tasks,
                   resulting_nodes, resulting_ways, resulting_restrictions, number_of_nodes, number_of_ways,
                   number_of_relations, number_of_others>>
    /\ ParseFrame

\* Lines 223-231: the parallel_for has returned (every task is through);
\* ProcessNode is called for every entry of resulting_nodes, in vector order.
PutNodes ==
    /\ ppc = "parse"
    /\ \A t \in 1..Len(tasks) : tasks[t].x = tasks[t].end
    /\ callback_calls' =
          callback_calls \o CallsOf("ProcessNode", buffers_read, resulting_nodes)
    /\ ppc' = "ways"
    /\ UNCHANGED <<buffers_read, osm_elements, buffers_seen, tasks,
                   resulting_nodes, resulting_ways, resulting_restrictions, number_of_nodes, number_of_ways,
                   number_of_relations, number_of_others>>
    /\ ParseFrame

\* Lines 232-236: ProcessWay for every entry of resulting_ways.
PutWays ==
    /\ ppc = "ways"
    /\ callback_calls' =
          callback_calls \o CallsOf("ProcessWay", buffers_read, resulting_ways)
    /\ ppc' = "restrictions"
    /\ UNCHANGED <<buffers_read, osm_elements, buffers_seen, tasks,
                   resulting_nodes, resulting_ways, resulting_restrictions, number_of_nodes, number_of_ways,
                   number_of_relations, number_of_others>>
    /\ ParseFrame

\* Lines 237-241: ProcessRestriction for every entry of
\* resulting_restrictions; then the next buffer is read.
PutRestrictions ==
    /\ ppc = "restrictions"
    /\ callback_calls' =
          callback_calls \o CallsOf("ProcessRestriction", buffers_read,
                                    resulting_restrictions)
    /\ ppc' = "read"
    /\ UNCHANGED <<buffers_read, osm_elements, buffers_seen, tasks,
                   resulting_nodes, resulting_ways, resulting_restrictions, number_of_nodes, number_of_ways,
                   number_of_relations, number_of_others>>
    /\ ParseFrame

\* Lines 166 and 242-250: reader.read() hands out no further buffer.
EndOfInput ==
    /\ ppc = "read"
    /\ ppc' = "parsed"
    /\ UNCHANGED <<buffers_read, osm_elements, buffers_seen, tasks,
                   resulting_nodes, resulting_ways, resulting_restrictions, number_of_nodes, number_of_ways,
                   number_of_relations, number_of_others, callback_calls>>
    /\ ParseFrame

NextParse ==
    \/ ReadBuffer
    \/ \E t \in 1..Len(tasks) : ParseElement(t)
    \/ PutNodes
    \/ PutWays
    \/ PutRestrictions
    \/ EndOfInput

SpecParse == InitParse /\ [][NextParse]_vars

\* ------------------------------------------------------------------------
\* C11: within one buffer, whatever the interleaving of the parse tasks,
\* ProcessNode is called on the buffer's nodes in ascending element index,
\* ProcessWay on its ways and ProcessRestriction on its relations likewise.
\* ------------------------------------------------------------------------
C11_InputOrder ==
    \A i, j \in 1..Len(callback_calls) :
        (/\ i < j
         /\ callback_calls[i].buffer = callback_calls[j].buffer
         /\ callback_calls[i].fn = callback_calls[j].fn)
        => callback_calls[i].element < callback_calls[j].element


\* ========================================================================
\* extractor::run (control flow, lines 94-326) and BuildEdgeExpandedGraph
\* ========================================================================

\* The steps of run in which a std::exception may be thrown (a profile that
\* does not load, a callback that fails, a file that cannot be read).
ThrowingSteps == {"setup", "parse", "prepare_data", "load_graphs", "factory",
                  "rtree"}

\* What dereferencing the empty shared_ptr of LoadNodeBasedGraph (line 524)
\* may do, this being undefined behaviour: the process is killed, or the
\* reference reads whatever is there and the expansion goes on.
DerefOfNull == {"crash", "garbage"}

\* LoadNodeBasedGraph, lines 490-498: no graph for an empty edge list.
LoadNodeBasedGraph(has_edges) == IF has_edges THEN "graph" ELSE "null"

InitExtract ==
    /\ xpc = "setup"
    /\ throw_at \in ThrowingSteps \cup {None}
    /\ generate_edge_lookup \in BOOLEAN
    /\ edges_parsed = FALSE
    /\ osrm_has_edges = FALSE
    /\ node_based_graph = None
    /\ extract_ret = None
    /\ RunIdle
    /\ LoadIdle
    /\ WriteIdle
    /\ ParseIdle
    /\ CompIdle
    /\ ContractIdle

ExtractFrame == UNCHANGED <<throw_at, generate_edge_lookup, rpc, core_factor,
                            use_cached_priority, segment_speed_given,
                            seg_lookup_opens, penalties_open, abort_reason,
                            node_levels, loadVars, writeVars, parseVars,
                            compVars, contractVars>>

\* Lines 266-270 and 319-323: the exception is caught, logged, and run
\* returns 1.
Caught ==
    /\ events' = Append(events, "warn:exception")
    /\ extract_ret' = 1
    /\ xpc' = "returned"

\* Lines 98-144: the scripting environment, the reader, source_function.
XSetup ==
    /\ xpc = "setup"
    /\ IF throw_at = "setup"
       THEN Caught
       ELSE /\ xpc' = "timestamp"
            /\ UNCHANGED <<events, extract_ret>>
    /\ UNCHANGED <<edges_parsed, osrm_has_edges, node_based_graph>>
    /\ ExtractFrame

\* Lines 146-156: the .timestamp file is created, written and closed.
XTimestamp ==
    /\ xpc = "timestamp"
    /\ events' = events \o <<"open_write:timestamp", "write:timestamp">>
    /\ xpc' = "parse"
    /\ UNCHANGED <<edges_parsed, osrm_has_edges, node_based_graph, extract_ret>>
    /\ ExtractFrame

\* Lines 158-250: the parse loop; the callbacks fill all_edges_list or leave
\* it empty.
XParse ==
    /\ xpc = "parse"
    /\ IF throw_at = "parse"
       THEN /\ Caught
            /\ UNCHANGED edges_parsed
       ELSE /\ events' = Append(events, "parse")
            /\ edges_parsed' \in BOOLEAN
            /\ xpc' = "empty_check"
            /\ UNCHANGED extract_ret
    /\ UNCHANGED <<osrm_has_edges, node_based_graph>>
    /\ ExtractFrame

\* Lines 252-256: with an empty all_edges_list a warning is logged and run
\* returns 1.
XEmptyCheck ==
    /\ xpc = "empty_check"
    /\ IF ~edges_parsed
       THEN /\ events' = Append(events, "warn:empty_input")
            /\ extract_ret' = 1
            /\ xpc' = "returned"
       ELSE /\ xpc' = "prepare_data"
            /\ UNCHANGED <<events, extract_ret>>
    /\ UNCHANGED <<edges_parsed, osrm_has_edges, node_based_graph>>
    /\ ExtractFrame

\* Lines 258-265: PrepareData writes the .osrm, .restrictions and .names
\* files; the .osrm file holds the edges that PrepareData kept.
XPrepareData ==
    /\ xpc = "prepare_data"
    /\ IF throw_at = "prepare_data"
       THEN /\ Caught
            /\ UNCHANGED osrm_has_edges
       ELSE /\ events' = events \o <<"write:osrm", "write:restrictions", "write:names">>
            /\ osrm_has_edges' \in BOOLEAN
            /\ xpc' = "load_graphs"
            /\ UNCHANGED extract_ret
    /\ UNCHANGED <<edges_parsed, node_based_graph>>
    /\ ExtractFrame

\* Lines 283-291 into BuildEdgeExpandedGraph, lines 509-520: the profile is
\* set up, the restrictions and the node-based graph are loaded; for an empty
\* edge list LoadNodeBasedGraph warns and returns an empty pointer.
XLoadGraphs ==
    /\ xpc = "load_graphs"
    /\ IF throw_at = "load_graphs"
       THEN /\ Caught
            /\ UNCHANGED node_based_graph
       ELSE /\ events' = events \o <<"read:restrictions", "read:osrm">> \o
                         (IF osrm_has_edges THEN <<>> ELSE <<"warn:empty_input">>)
            /\ node_based_graph' = LoadNodeBasedGraph(osrm_has_edges)
            /\ xpc' = "compress"
            /\ UNCHANGED extract_ret
    /\ UNCHANGED <<edges_parsed, osrm_has_edges>>
    /\ ExtractFrame

\* Lines 522-525: the graph compressor runs on *node_based_graph.
XCompress ==
    /\ xpc = "compress"
    /\ IF node_based_graph = "null"
       THEN \E outcome \in DerefOfNull :
               IF outcome = "crash"
               THEN /\ xpc' = "crashed"
                    /\ UNCHANGED events
               ELSE /\ xpc' = "factory"
                    /\ events' = Append(events, "compress")
       ELSE /\ xpc' = "factory"
            /\ events' = Append(events, "compress")
    /\ UNCHANGED <<edges_parsed, osrm_has_edges, node_based_graph, extract_ret>>
    /\ ExtractFrame

\* Lines 527-551: the geometry is serialised, the edge-based graph factory
\* runs and writes the .edge file and, with generate_edge_lookup, the two
\* side-car files.
XFactoryRun ==
    /\ xpc = "factory"
    /\ IF throw_at = "factory"
       THEN Caught
       ELSE /\ events' = events \o <<"write:geometry", "expand", "write:edge">> \o
                         (IF generate_edge_lookup
                          THEN <<"write:edge_segment_lookup", "write:edge_penalties">>
                          ELSE <<>>)
            /\ xpc' = "components"
            /\ UNCHANGED extract_ret
    /\ UNCHANGED <<edges_parsed, osrm_has_edges, node_based_graph>>
    /\ ExtractFrame

\* Line 301: FindComponents.
XFindComponents ==
    /\ xpc = "components"
    /\ events' = Append(events, "find_components")
    /\ xpc' = "rtree"
    /\ UNCHANGED <<edges_parsed, osrm_has_edges, node_based_graph, extract_ret>>
    /\ ExtractFrame

\* Line 303: BuildRTree writes the .ramIndex and .fileIndex files.
XBuildRTree ==
    /\ xpc = "rtree"
    /\ IF throw_at = "rtree"
       THEN Caught
       ELSE /\ events' = events \o <<"build_rtree", "write:ramIndex", "write:fileIndex">>
            /\ xpc' = "node_map"
            /\ UNCHANGED extract_ret
    /\ UNCHANGED <<edges_parsed, osrm_has_edges, node_based_graph>>
    /\ ExtractFrame

\* Line 308: WriteNodeMapping.
XWriteNodeMapping ==
    /\ xpc = "node_map"
    /\ events' = events \o <<"open_write:nodes", "write:nodes">>
    /\ xpc' = "edge_graph"
    /\ UNCHANGED <<edges_parsed, osrm_has_edges, node_based_graph, extract_ret>>
    /\ ExtractFrame

\* Lines 310-325: WriteEdgeBasedGraph; run returns 0.
XWriteEdgeBasedGraph ==
    /\ xpc = "edge_graph"
    /\ events' = events \o <<"open_write:edges", "write:edges">>
    /\ extract_ret' = 0
    /\ xpc' = "returned"
    /\ UNCHANGED <<edges_parsed, osrm_has_edges, node_based_graph>>
    /\ ExtractFrame

NextExtract ==
    \/ XSetup
    \/ XTimestamp
    \/ XParse
    \/ XEmptyCheck
    \/ XPrepareData
    \/ XLoadGraphs
    \/ XCompress
    \/ XFactoryRun
    \/ XFindComponents
    \/ XBuildRTree
    \/ XWriteNodeMapping
    \/ XWriteEdgeBasedGraph

SpecExtract == InitExtract /\ [][NextExtract]_vars

\* ---- helpers for statements about extractor::run ----

\* The events of the second try block of run.
SecondStageEvents ==
    {"read:restrictions", "read:osrm", "compress", "write:geometry", "expand",
     "write:edge", "write:edge_segment_lookup", "write:edge_penalties",
     "find_components", "build_rtree", "write:ramIndex", "write:fileIndex",
     "open_write:nodes", "write:nodes", "open_write:edges", "write:edges"}

\* An output file was created or written.
IsOutputEvent(e) ==
    e \in {"open_write:timestamp", "write:timestamp", "write:osrm",
           "write:restrictions", "write:names", "write:geometry", "write:edge",
           "write:edge_segment_lookup", "write:edge_penalties", "write:ramIndex",
           "write:fileIndex", "open_write:nodes", "write:nodes",
           "open_write:edges", "write:edges"}

\* run has ended, by a return or otherwise.
ExtractEnded == xpc \in {"returned", "crashed"}

\* The abort on empty input has happened.
AbortedOnEmptyInput ==
    /\ xpc = "returned"
    /\ ~edges_parsed
    /\ HasEvent("parse")

\* ------------------------------------------------------------------------
\* C12: when the parsed input yields no edges, run returns 1 and at that
\* point no output file has been created or written, .timestamp included.
\* ------------------------------------------------------------------------
C12_EmptyInputNoOutput ==
    AbortedOnEmptyInput =>
        /\ extract_ret = 1
        /\ \A i \in 1..Len(events) : ~IsOutputEvent(events[i])

\* ------------------------------------------------------------------------
\* C13: run returns 0 iff parsing, data preparation and edge expansion all
\* complete without an exception on non-empty input, and returns 1 in every
\* other case; when the first stage fails or finds empty input the second
\* stage is never started.
\* ------------------------------------------------------------------------
C13_ReturnCodes ==
    LET first_stage_done == HasEvent("write:osrm")
        all_complete == /\ edges_parsed
                        /\ first_stage_done
                        /\ HasEvent("write:edges")
        Returned(v) == xpc = "returned" /\ extract_ret = v
    IN  /\ ExtractEnded =>
              /\ Returned(0) <=> all_complete
              /\ ~all_complete => Returned(1)
        /\ ~first_stage_done =>
              \A i \in 1..Len(events) : events[i] \notin SecondStageEvents


\* ========================================================================
\* extractor::FindComponents (lines 369-442)
\* ========================================================================

\* Largest max_edge_id of the small graphs handed to FindComponents.
MaxComponentNodeId == 2

\* Most turn edges of the small graphs handed to FindComponents.
MaxTurnEdges == 2

\* The sentinel for "no reverse edge-based node": the largest unsigned value
\* in the code, here the largest number the checker holds; all that matters
\* is that no node id equals it.
SPECIAL_NODEID == 2147483647

\* The sizes of the large components tried: just below the limit of line 439,
\* and at it.
StarSizes == {999, 1000}

\* The subsets of S with at most k elements.
RECURSIVE SetsUpTo(_, _)
SetsUpTo(S, k) ==
    IF k = 0 THEN {{}}
    ELSE LET smaller == SetsUpTo(S, k - 1)
         IN  smaller \cup { T \cup {x} : T \in smaller, x \in S }

\* A set of records as a list (in some fixed order).
RECURSIVE ListOf(_)
ListOf(S) ==
    IF S = {} THEN <<>>
    ELSE LET x == CHOOSE y \in S : TRUE
         IN  <<x>> \o ListOf(S \ {x})

\* The turn edges over the ids 0..max_id: an EdgeBasedEdge with its source,
\* its target and its two direction flags.
TurnEdges(max_id) ==
    { e \in [source : 0..max_id, target : 0..max_id,
             forward : BOOLEAN, backward : BOOLEAN] :
        e.source # e.target /\ e.forward # e.backward }

\* An EdgeBasedNode as FindComponents sees it: the two ids and the component
\* annotation.
EdgeBasedNode(fwd, rev, tiny) ==
    [forward_edge_based_node_id |-> fwd,
     reverse_edge_based_node_id |-> rev,
     component |-> [id |-> 0, is_tiny |-> tiny]]

\* The record sets over the ids 0..max_id: every id is the forward id or the
\* reverse id of exactly one record.
NodeRecordSets(max_id) ==
    LET ids == 0..max_id
        records == { r \in [fwd : ids, rev : ids \cup {SPECIAL_NODEID}] :
                       r.fwd # r.rev }
    IN  { R \in SUBSET records :
            \A id \in ids :
               Cardinality({ r \in R : id \in {r.fwd, r.rev} }) = 1 }

\* The small inputs: any turn edges and any pairing over a few ids.
SmallInputsOf(max_id) ==
    LET edge_sets == SetsUpTo(TurnEdges(max_id), MaxTurnEdges)
        record_sets == NodeRecordSets(max_id)
        edge_lists == { ListOf(E) : E \in edge_sets }
        node_lists == { LET L == ListOf(R)
                        IN  [i \in 1..Len(L) |->
                               EdgeBasedNode(L[i].fwd, L[i].rev, FALSE)] :
                        R \in record_sets }
    IN  [max_edge_id : {max_id}, input_edge_list : edge_lists,
         input_nodes : node_lists]

SmallInputs == UNION { SmallInputsOf(max_id) : max_id \in 0..MaxComponentNodeId }

\* The large inputs: the ids 0..n-1 joined by two-way turn edges with id 0,
\* and an island of the paired ids n and n+1 with no turn edge.
StarInput(n) ==
    [max_edge_id |-> n + 1,
     input_edge_list |-> [i \in 1..(n - 1) |->
                            [source |-> 0, target |-> i,
                             forward |-> TRUE, backward |-> TRUE]],
     input_nodes |-> [i \in 1..n |-> EdgeBasedNode(i - 1, SPECIAL_NODEID, TRUE)]
                     \o <<EdgeBasedNode(n, n + 1, TRUE)>>]

NoEdge == <<>>

IsEdge(e) == e # NoEdge

\* Lines 396-409: for every edge of the list, (source, target) when forward
\* and (target, source) when backward, in this order.
TurnEdgePushes(list) ==
    SelectSeq([k \in 1..(2 * Len(list)) |->
                  LET edge == list[(k + 1) \div 2]
                  IN  IF k % 2 = 1
                      THEN (IF edge.forward THEN <<edge.source, edge.target>>
                            ELSE NoEdge)
                      ELSE (IF edge.backward THEN <<edge.target, edge.source>>
                            ELSE NoEdge)],
              IsEdge)

\* Lines 412-419: for every node with a reverse id, (forward, reverse) and
\* (reverse, forward).
PairLinkPushes_OneWay(nodes) ==
    SelectSeq([k \in 1..Len(nodes) |->
                  LET node == nodes[k]
                  IN  IF node.reverse_edge_based_node_id # SPECIAL_NODEID
                      THEN <<node.forward_edge_based_node_id,
                             node.reverse_edge_based_node_id>>
                      ELSE NoEdge],
              IsEdge)

PairLinkPushes(nodes) ==
    SelectSeq([k \in 1..(2 * Len(nodes)) |->
                  LET node == nodes[(k + 1) \div 2]
                  IN  IF node.reverse_edge_based_node_id # SPECIAL_NODEID
                      THEN (IF k % 2 = 1
                            THEN <<node.forward_edge_based_node_id,
                                   node.reverse_edge_based_node_id>>
                            ELSE <<node.reverse_edge_based_node_id,
                                   node.forward_edge_based_node_id>>)
                      ELSE NoEdge],
              IsEdge)

\* Lines 421-425: the vector is sorted, made unique, and a graph of
\* number_of_nodes nodes is built from it. A sorted vector without
\* duplicates is given by its entries; the graph holds them as a set.
UncontractedGraph(nodes, edge_vector) ==
    [number_of_nodes |-> nodes,
     edges |-> { edge_vector[i] : i \in 1..Len(edge_vector) }]

\* ---- strongly connected components ----

\* The targets of the edges of E that start in S.
Successors(E, S) == { e[2] : e \in { d \in E : d[1] \in S } }

\* Everything reachable from S along E.
RECURSIVE ReachFrom(_, _)
ReachFrom(E, S) ==
    LET N == S \cup Successors(E, S)
    IN  IF N = S THEN S ELSE ReachFrom(E, N)

Reversed(E) == { <<e[2], e[1]>> : e \in E }

\* The strongly connected component of v.
SCC(E, v) == ReachFrom(E, {v}) \cap ReachFrom(Reversed(E), {v})

\* The strongly connected components of the nodes of rest, appended to found.
RECURSIVE ComponentsOf(_, _, _)
ComponentsOf(E, rest, found) ==
    IF rest = {} THEN found
    ELSE LET c == SCC(E, CHOOSE v \in rest : TRUE)
         IN  ComponentsOf(E, rest \ c, Append(found, c))

\* TarjanSCC::run with get_component_id and get_component_size: every node
\* gets the number of its strongly connected component, and every component
\* its number of nodes.
TarjanSCC(graph) ==
    LET parts == ComponentsOf(graph.edges, 0..(graph.number_of_nodes - 1), <<>>)
    IN  [component_id |-> [v \in 0..(graph.number_of_nodes - 1) |->
                             (CHOOSE k \in 1..Len(parts) : v \in parts[k]) - 1],
         component_size |-> [k \in 0..(Len(parts) - 1) |->
                               Cardinality(parts[k + 1])]]

\* Line 439: the tiny flag of a component of this size.
IsTiny_AtMost(component_size) == component_size <= 1000

IsTiny(component_size) == component_size < 1000

\* Lines 431-441, one pass of the loop.
Annotated(node, search) ==
    LET forward_component == search.component_id[node.forward_edge_based_node_id]
    IN  [node EXCEPT !.component =
            [id |-> 1 + forward_component,
             is_tiny |-> IsTiny(search.component_size[forward_component])]]

InitComponents ==
    /\ cpc = "turn_edges"
    /\ \E in \in SmallInputs \cup { StarInput(n) : n \in StarSizes } :
          /\ fc_max_edge_id = in.max_edge_id
          /\ fc_input_edge_list = in.input_edge_list
          /\ input_nodes = in.input_nodes
    /\ fc_edges = <<>>
    /\ uncontractor_graph = None
    /\ component_search = None
    /\ RunIdle
    /\ LoadIdle
    /\ WriteIdle
    /\ ParseIdle
    /\ ExtractIdle
    /\ ContractIdle

CompFrame == UNCHANGED <<fc_max_edge_id, fc_input_edge_list, runVars, loadVars,
                         writeVars, parseVars, extractVars, contractVars>>

\* Lines 393-409.
FCTurnEdges ==
    /\ cpc = "turn_edges"
    /\ fc_edges' = TurnEdgePushes(fc_input_edge_list)
    /\ cpc' = "pair_links"
    /\ UNCHANGED <<input_nodes, uncontractor_graph, component_search>>
    /\ CompFrame

\* Lines 411-419.
FCPairLinks ==
    /\ cpc = "pair_links"
    /\ fc_edges' = fc_edges \o PairLinkPushes(input_nodes)
    /\ cpc' = "graph"
    /\ UNCHANGED <<input_nodes, uncontractor_graph, component_search>>
    /\ CompFrame

\* Lines 421-425.
FCBuildGraph ==
    /\ cpc = "graph"
    /\ uncontractor_graph' = UncontractedGraph(fc_max_edge_id + 1, fc_edges)
    /\ cpc' = "tarjan"
    /\ UNCHANGED <<input_nodes, fc_edges, component_search>>
    /\ CompFrame

\* Lines 427-429.
FCTarjan ==
    /\ cpc = "tarjan"
    /\ component_search' = TarjanSCC(uncontractor_graph)
    /\ cpc' = "annotate"
    /\ UNCHANGED <<input_nodes, fc_edges, uncontractor_graph>>
    /\ CompFrame

\* Lines 431-442: every node is annotated; FindComponents returns.
FCAnnotate ==
    /\ cpc = "annotate"
    /\ input_nodes' = [i \in 1..Len(input_nodes) |->
                          Annotated(input_nodes[i], component_search)]
    /\ cpc' = "done"
    /\ UNCHANGED <<fc_edges, uncontractor_graph, component_search>>
    /\ CompFrame

NextComponents ==
    \/ FCTurnEdges
    \/ FCPairLinks
    \/ FCBuildGraph
    \/ FCTarjan
    \/ FCAnnotate

SpecComponents == InitComponents /\ [][NextComponents]_vars

\* ---- helpers for statements about FindComponents ----

\* The augmented graph as the claims describe it: the forward turn edges,
\* reversed copies of the backward turn edges, and links both ways between
\* the ids of every pair.
ClaimedAugmentedGraph ==
    LET turns == { fc_input_edge_list[i] : i \in 1..Len(fc_input_edge_list) }
        pairs == { n \in { input_nodes[i] : i \in 1..Len(input_nodes) } :
                     n.reverse_edge_based_node_id # SPECIAL_NODEID }
    IN  { <<e.source, e.target>> : e \in { t \in turns : t.forward } }
        \cup { <<e.target, e.source>> : e \in { t \in turns : t.backward } }
        \cup { <<n.forward_edge_based_node_id, n.reverse_edge_based_node_id>> :
                 n \in pairs }
        \cup { <<n.reverse_edge_based_node_id, n.forward_edge_based_node_id>> :
                 n \in pairs }

\* a and b reach each other along E.
MutuallyReachable(E, a, b) ==
    /\ b \in ReachFrom(E, {a})
    /\ a \in ReachFrom(E, {b})

\* ------------------------------------------------------------------------
\* C14: after FindComponents, for every node record with a reverse id, the
\* forward id and the reverse id are in the same strongly connected
\* component of the augmented graph, and the component id stored in the
\* record is the component of both; also for pairs with no turn edge.
\* ------------------------------------------------------------------------
C14_PairSameComponent ==
    cpc = "done" =>
        \A i \in 1..Len(input_nodes) :
            LET node == input_nodes[i]
                fwd == node.forward_edge_based_node_id
                rev == node.reverse_edge_based_node_id
            IN  rev # SPECIAL_NODEID =>
                   /\ MutuallyReachable(ClaimedAugmentedGraph, fwd, rev)
                   /\ MutuallyReachable(uncontractor_graph.edges, fwd, rev)
                   /\ node.component.id = 1 + component_search.component_id[fwd]
                   /\ node.component.id = 1 + component_search.component_id[rev]

\* A pair with no turn edge at all, labelled with one component.
C14_Witness ==
    /\ cpc = "done"
    /\ fc_input_edge_list = <<>>
    /\ \E i \in 1..Len(input_nodes) :
          /\ input_nodes[i].reverse_edge_based_node_id # SPECIAL_NODEID
          /\ input_nodes[i].component.id =
                1 + component_search.component_id[
                       input_nodes[i].reverse_edge_based_node_id]

\* ------------------------------------------------------------------------
\* C15: after FindComponents the tiny flag of a node record is set iff the
\* strongly connected component of its forward id in the augmented graph
\* (forward turn edges, reversed copies of backward turn edges, links both
\* ways within a pair, duplicates removed) holds fewer than 1000 ids; a
\* component of exactly 1000 ids is not tiny.
\* ------------------------------------------------------------------------
C15_TinyFlag ==
    cpc = "done" =>
        LET parts == ComponentsOf(ClaimedAugmentedGraph, 0..fc_max_edge_id, <<>>)
            SizeOf(v) == Cardinality(parts[CHOOSE k \in 1..Len(parts) : v \in parts[k]])
        IN  /\ uncontractor_graph.edges = ClaimedAugmentedGraph
            /\ \A i \in 1..Len(input_nodes) :
                  input_nodes[i].component.is_tiny <=>
                     SizeOf(input_nodes[i].forward_edge_based_node_id) < 1000

\* A component of exactly 1000 ids whose records are not tiny, next to an
\* island whose record is.
C15_Witness ==
    /\ cpc = "done"
    /\ \E i, j \in 1..Len(input_nodes) :
          /\ component_search.component_size[input_nodes[i].component.id - 1] = 1000
          /\ ~input_nodes[i].component.is_tiny
          /\ component_search.component_size[input_nodes[j].component.id - 1] = 2
          /\ input_nodes[j].component.is_tiny

\* ========================================================================
\* Statements about the node levels of Prepare::Run
\* ========================================================================

\* The place of the first event e in the log (0 when there is none).
FirstAt(e) ==
    IF HasEvent(e) THEN CHOOSE i \in 1..Len(events) :
                           /\ events[i] = e
                           /\ \A j \in 1..(i - 1) : events[j] # e
    ELSE 0

\* Event a is in the log and before every event b of the log.
Precedes(a, b) ==
    /\ HasEvent(a)
    /\ HasEvent(b) => FirstAt(a) < FirstAt(b)

LevelReadEvents == {"open_read:level", "read:level"}

LevelWriteEvents == {"open_write:level", "write:level"}

\* ------------------------------------------------------------------------
\* C16: with use_cached_priority Run reads the level file before the
\* contraction, the contractor gets the levels read, and the level file is
\* never written; without it the level file is never read, the contractor
\* gets an empty level vector, and the level file is written after the
\* contracted graph and the core marker.
\* ------------------------------------------------------------------------
C16_CachedLevels ==
    /\ use_cached_priority =>
          /\ \A i \in 1..Len(events) : events[i] \notin LevelWriteEvents
          /\ ~HasEvent("contract:levels_empty")
          /\ HasEvent("contract:levels_from_file") =>
                /\ Precedes("open_read:level", "contract:levels_from_file")
                /\ Precedes("read:level", "contract:levels_from_file")
          /\ rpc = "returned" => HasEvent("contract:levels_from_file")
    /\ ~use_cached_priority =>
          /\ \A i \in 1..Len(events) : events[i] \notin LevelReadEvents
          /\ ~HasEvent("contract:levels_from_file")
          /\ HasEvent("open_write:level") =>
                /\ Precedes("contract:levels_empty", "open_write:level")
                /\ Precedes("write:hsgr", "open_write:level")
                /\ Precedes("write:core", "open_write:level")
          /\ rpc = "returned" =>
                /\ HasEvent("contract:levels_empty")
                /\ HasEvent("write:level")

\* A finished run with the flag: levels read and used, none written.
C16_Witness ==
    /\ rpc = "returned"
    /\ use_cached_priority
    /\ HasEvent("read:level")
    /\ HasEvent("contract:levels_from_file")
    /\ HasEvent("write:core")
    /\ ~HasEvent("write:level")

\* ========================================================================
\* The contractor (ContractGraph, lines 451-465) and WriteCoreNodeMarker
\* (lines 307-322) of src/contractor/processing_chain.cpp.
\* The Contractor class itself is not among the sources; its rounds are
\* modelled from its description: select an independent set, simulate,
\* recheck, commit, stop.
\* ========================================================================

\* Most nodes of a graph handed to the contractor.
MaxContractNodes == 6

\* Most chords of such a graph.
MaxChords == 1

\* The hop limit of the witness search.
HopLimit == 5

\* The weights a chord may have next to a two-edge path of weight 2: one
\* that makes it a witness and one that does not.
ChordWeights == {2, 3}

\* The core factors handed to Contractor::Run, in tenths; Run's range check
\* has let them pass.
ContractCoreFactors == {0, 5, 10}

\* An edge of the input graph.
InputEdge(a, b, w) ==
    [source |-> a, target |-> b, weight |-> w, shortcut |-> FALSE, middle |-> None]

\* The input graphs: a chain 0 - 1 - ... - (n-1) of weight 1 both ways, and
\* chords i - (i+2), both ways, at some places.
ChainEdges(n) ==
    UNION { {InputEdge(i, i + 1, 1), InputEdge(i + 1, i, 1)} : i \in 0..(n - 2) }

ChordChoices(n) ==
    { C \in SetsUpTo([at : 0..(n - 3), weight : ChordWeights], MaxChords) :
         \A c, d \in C : c.at = d.at => c = d }

ChordEdges(C) ==
    UNION { {InputEdge(c.at, c.at + 2, c.weight),
             InputEdge(c.at + 2, c.at, c.weight)} : c \in C }

ContractInputsOf(n) ==
    { [nodes |-> 0..(n - 1), edges |-> ChainEdges(n) \cup ChordEdges(C)] :
         C \in ChordChoices(n) }

ContractInputs == UNION { ContractInputsOf(n) : n \in 1..MaxContractNodes }

\* The priorities a round may have computed.
Priorities == 0..1

Neighbours(E, v) ==
    { e.target : e \in { d \in E : d.source = v } } \cup
    { e.source : e \in { d \in E : d.target = v } }

TwoHopNeighbourhood(E, v) ==
    (Neighbours(E, v) \cup UNION { Neighbours(E, w) : w \in Neighbours(E, v) }) \ {v}

\* Step 2: v is selected iff its priority is minimal in its two-hop
\* neighbourhood, ties broken by node id.
LocallyMinimal_NoTieBreak(E, priority, v) ==
    \A w \in TwoHopNeighbourhood(E, v) : priority[v] <= priority[w]

LocallyMinimal(E, priority, v) ==
    \A w \in TwoHopNeighbourhood(E, v) :
        \/ priority[v] < priority[w]
        \/ priority[v] = priority[w] /\ v < w

IndependentSet(graph, priority) ==
    { v \in graph.nodes : LocallyMinimal(graph.edges, priority, v) }

MinOf(S) == CHOOSE x \in S : \A y \in S : x <= y

\* Step 3, the witness search: the weight of the shortest path of at most
\* hops edges from the start to every node, as an empty or one-element set.
RECURSIVE WitnessSearch(_, _, _, _)
WitnessSearch(E, N, d, hops) ==
    IF hops = 0 THEN d
    ELSE WitnessSearch(E, N,
            [x \in N |->
                LET found == d[x] \cup
                             UNION { { a + e.weight : a \in d[e.source] } :
                                       e \in { g \in E : g.target = x } }
                IN  IF found = {} THEN {} ELSE {MinOf(found)}],
            hops - 1)

\* Step 3: the shortcuts the contraction of v would add: u -> w is needed
\* iff the path u -> v -> w is strictly shorter than every witness path
\* from u to w that does not go through v.
ShortcutsOf(graph, v) ==
    LET others == graph.nodes \ {v}
        rest   == { e \in graph.edges : e.source # v /\ e.target # v }
        ins    == { e \in graph.edges : e.target = v }
        outs   == { e \in graph.edges : e.source = v }
        Witness(u) == WitnessSearch(rest, others,
                                    [x \in others |-> IF x = u THEN {0} ELSE {}],
                                    HopLimit)
        Needed(i, o) ==
            /\ i.source # o.target
            /\ \A w \in Witness(i.source)[o.target] : i.weight + o.weight < w
    IN  { [source |-> p[1].source, target |-> p[2].target,
           weight |-> p[1].weight + p[2].weight, shortcut |-> TRUE, middle |-> v] :
          p \in { q \in ins \X outs : Needed(q[1], q[2]) } }

\* Step 5, the edges: a shortcut that duplicates an edge replaces it, with
\* the shorter weight and the shortcut mark.
AddShortcuts(E, S) ==
    LET Same(e, s) == e.source = s.source /\ e.target = s.target
        Merged(s) ==
            IF \E e \in E : Same(e, s)
            THEN [s EXCEPT !.weight =
                     MinOf({s.weight} \cup { e.weight : e \in { d \in E : Same(d, s) } })]
            ELSE s
    IN  { e \in E : ~\E s \in S : Same(e, s) } \cup { Merged(s) : s \in S }

\* Step 5: v is deleted from the live graph and its shortcuts are added.
Commit(graph, v, shortcuts) ==
    [nodes |-> graph.nodes \ {v},
     edges |-> AddShortcuts({ e \in graph.edges : e.source # v /\ e.target # v },
                            shortcuts)]

\* Step 6: the contraction stops when the share core_factor of the nodes is
\* contracted (1.0 contracts everything, 0.0 nothing), or when no node is
\* left to select.
Stops(live_count, total, factor) ==
    \/ 10 * (total - live_count) >= factor * total
    \/ live_count = 0

\* GetCoreMarker: one flag per node, set for the nodes that were not
\* contracted.
GetCoreMarker(total, live) == [i \in 1..total |-> (i - 1) \in live]

\* WriteCoreNodeMarker, lines 310-314: every flag as one char, 1 or 0.
UnpackedBoolFlags_Inverted(marker) ==
    [i \in 1..Len(marker) |-> IF marker[i] THEN 0 ELSE 1]

UnpackedBoolFlags(marker) ==
    [i \in 1..Len(marker) |-> IF marker[i] THEN 1 ELSE 0]

LiveGraph == [nodes |-> live_nodes, edges |-> live_edges]

InitContract ==
    /\ kpc = "loop"
    /\ \E in \in ContractInputs :
          /\ contract_nodes = Cardinality(in.nodes)
          /\ live_nodes = in.nodes
          /\ live_edges = in.edges
    /\ contract_core_factor \in ContractCoreFactors
    /\ round_graph = None
    /\ selected = {}
    /\ simulated = {}
    /\ to_commit = {}
    /\ is_core_node = <<>>
    /\ core_file = <<>>
    /\ RunIdle
    /\ LoadIdle
    /\ WriteIdle
    /\ ParseIdle
    /\ ExtractIdle
    /\ CompIdle

ContractFrame == UNCHANGED <<contract_nodes, contract_core_factor, runVars,
                             loadVars, writeVars, parseVars, extractVars,
                             compVars>>

\* Step 6, checked before every round.
KLoop ==
    /\ kpc = "loop"
    /\ kpc' = IF Stops(Cardinality(live_nodes), contract_nodes, contract_core_factor)
              THEN "core_marker" ELSE "select"
    /\ UNCHANGED <<live_nodes, live_edges, round_graph, selected, simulated,
                   to_commit, is_core_node, core_file>>
    /\ ContractFrame

\* Steps 1 and 2: priorities, and the independent set they give.
KSelect ==
    /\ kpc = "select"
    /\ \E priority \in [live_nodes -> Priorities] :
          selected' = IndependentSet(LiveGraph, priority)
    /\ round_graph' = LiveGraph
    /\ kpc' = "simulate"
    /\ UNCHANGED <<live_nodes, live_edges, simulated, to_commit, is_core_node,
                   core_file>>
    /\ ContractFrame

\* Step 3: every selected node is simulated on the graph the round found.
KSimulate ==
    /\ kpc = "simulate"
    /\ simulated' = { [node |-> v, shortcuts |-> ShortcutsOf(round_graph, v)] :
                      v \in selected }
    /\ kpc' = "recheck"
    /\ UNCHANGED <<live_nodes, live_edges, round_graph, selected, to_commit,
                   is_core_node, core_file>>
    /\ ContractFrame

\* Step 4: some of the selected nodes are deferred.
KRecheck ==
    /\ kpc = "recheck"
    /\ to_commit' \in SUBSET selected
    /\ kpc' = "commit"
    /\ UNCHANGED <<live_nodes, live_edges, round_graph, selected, simulated,
                   is_core_node, core_file>>
    /\ ContractFrame

\* Step 5, one contraction; the surviving contractions are committed one
\* after the other, in any order.
KCommit(v) ==
    /\ kpc = "commit"
    /\ v \in to_commit
    /\ LET sim == CHOOSE s \in simulated : s.node = v
           next == Commit(LiveGraph, v, sim.shortcuts)
       IN  /\ live_nodes' = next.nodes
           /\ live_edges' = next.edges
    /\ to_commit' = to_commit \ {v}
    /\ UNCHANGED <<kpc, round_graph, selected, simulated, is_core_node, core_file>>
    /\ ContractFrame

\* The round is over.
KEndRound ==
    /\ kpc = "commit"
    /\ to_commit = {}
    /\ kpc' = "loop"
    /\ round_graph' = None
    /\ selected' = {}
    /\ simulated' = {}
    /\ UNCHANGED <<live_nodes, live_edges, to_commit, is_core_node, core_file>>
    /\ ContractFrame

\* ContractGraph, line 463: contractor.GetCoreMarker(is_core_node).
KGetCoreMarker ==
    /\ kpc = "core_marker"
    /\ is_core_node' = GetCoreMarker(contract_nodes, live_nodes)
    /\ kpc' = "write_core"
    /\ UNCHANGED <<live_nodes, live_edges, round_graph, selected, simulated,
                   to_commit, core_file>>
    /\ ContractFrame

\* Run, line 107, and WriteCoreNodeMarker, lines 307-322: the size, then
\* the unpacked flags.
KWriteCoreNodeMarker ==
    /\ kpc = "write_core"
    /\ LET unpacked_bool_flags == UnpackedBoolFlags(is_core_node)
       IN  core_file' = <<Cell("size", Len(unpacked_bool_flags))>> \o
                        [i \in 1..Len(unpacked_bool_flags) |->
                            Cell("flag", unpacked_bool_flags[i])]
    /\ kpc' = "done"
    /\ UNCHANGED <<live_nodes, live_edges, round_graph, selected, simulated,
                   to_commit, is_core_node>>
    /\ ContractFrame

NextContract ==
    \/ KLoop
    \/ KSelect
    \/ KSimulate
    \/ KRecheck
    \/ \E v \in 0..(MaxContractNodes - 1) : KCommit(v)
    \/ KEndRound
    \/ KGetCoreMarker
    \/ KWriteCoreNodeMarker

SpecContract == InitContract /\ [][NextContract]_vars

\* ---- helpers for statements about the contraction rounds ----

\* The shortcuts the simulation found for v.
SimulatedOf(v) == (CHOOSE s \in simulated : s.node = v).shortcuts

\* The graph after committing the nodes of order, first to last.
RECURSIVE CommitInOrder(_, _)
CommitInOrder(graph, order) ==
    IF order = <<>> THEN graph
    ELSE CommitInOrder(Commit(graph, Head(order), SimulatedOf(Head(order))),
                       Tail(order))

\* The nodes committed in the current round so far.
CommittedInRound == round_graph.nodes \ live_nodes

\* ------------------------------------------------------------------------
\* C17: in every round no two nodes of the selected independent set are
\* neighbours in the live graph, and the contractions the round commits
\* commute: every order of committing them gives the same live graph and
\* the same shortcuts.
\* ------------------------------------------------------------------------
C17_RoundCommutes ==
    kpc \in {"simulate", "recheck", "commit"} =>
        /\ \A u, v \in selected :
              u # v => /\ v \notin Neighbours(round_graph.edges, u)
                       /\ v \in live_nodes /\ u \in live_nodes =>
                             v \notin Neighbours(live_edges, u)
        /\ kpc = "commit" =>
              /\ CommittedInRound \subseteq selected
              /\ \A order \in PermutationsOf(ListOf(CommittedInRound)) :
                    CommitInOrder(round_graph, order) = LiveGraph

\* A round that has committed two nodes, each with a shortcut.
C17_Witness ==
    /\ kpc = "commit"
    /\ to_commit = {}
    /\ Cardinality(CommittedInRound) = 2
    /\ \A v \in CommittedInRound :
          \E s \in SimulatedOf(v) : s \in live_edges /\ s.shortcut /\ s.middle = v

IsEdgeCell(c) == c.type = "EdgeArrayEntry"

\* ------------------------------------------------------------------------
\* C19: a warning does not abort. For the contracted edge of distance <= 0
\* in a debug build: WriteContractedGraph warns and still completes, so
\* that when it returns, the .hsgr file holds the record of every edge of
\* the contracted edge list, in order.
\* ------------------------------------------------------------------------
C19_WarningsDoNotAbort ==
    wpc = "returned" =>
        SelectSeq(hsgr, IsEdgeCell) =
            [k \in 1..EdgeCount |->
                Cell("EdgeArrayEntry", EdgeArrayEntry(contracted_edge_list[k]))]

\* ========================================================================
\* The two programs one after the other: extractor::run, and Prepare::Run
\* on the files it wrote.
\* ========================================================================

InitPipeline == InitExtract

\* Prepare::Run starts on the output of an extractor run that returned 0,
\* with a configuration of its own, before extractor::FindComponents.
StartPrepare_Early ==
    /\ xpc = "components"
    /\ rpc = "idle"
    /\ rpc' = "start"
    /\ core_factor' \in CoreFactors
    /\ use_cached_priority' \in BOOLEAN
    /\ segment_speed_given' \in BOOLEAN
    /\ seg_lookup_opens' \in BOOLEAN
    /\ penalties_open' \in BOOLEAN
    /\ UNCHANGED <<events, abort_reason, node_levels, loadVars, writeVars, restVars>>

\* Prepare::Run starts on the output of an extractor run that returned 0,
\* with a configuration of its own.
StartPrepare ==
    /\ xpc = "returned"
    /\ extract_ret = 0
    /\ rpc = "idle"
    /\ rpc' = "start"
    /\ core_factor' \in CoreFactors
    /\ use_cached_priority' \in BOOLEAN
    /\ segment_speed_given' \in BOOLEAN
    /\ seg_lookup_opens' \in BOOLEAN
    /\ penalties_open' \in BOOLEAN
    /\ UNCHANGED <<events, abort_reason, node_levels, loadVars, writeVars, restVars>>

NextPipeline ==
    \/ NextExtract
    \/ StartPrepare
    \/ NextRun

SpecPipeline == InitPipeline /\ [][NextPipeline]_vars

\* ---- helpers for statements about the order of the stages ----

\* Every event of A in the log is before every event of B in the log, and
\* no event of B is in the log without one of A.
StageBefore(A, B) ==
    /\ \A i, j \in 1..Len(events) :
          (events[i] \in A /\ events[j] \in B) => i < j
    /\ (\E j \in 1..Len(events) : events[j] \in B) =>
          (\E i \in 1..Len(events) : events[i] \in A)

CompressStage == {"compress"}

ExpandStage == {"expand"}

SideCarStage == {"write:edge_segment_lookup", "write:edge_penalties"}

ComponentStage == {"find_components"}

GeometryStage == {"build_rtree", "write:ramIndex", "write:fileIndex"}

EdgeGraphWriteStage == {"open_write:edges", "write:edges"}

ReloadStage == {"open_read:edges", "read:edges_header", "read:segment_speed_csv",
                "read:edge_record", "read:edge_penalties",
                "read:edge_segment_lookup"}

ContractStage == {"contract:levels_empty", "contract:levels_from_file"}

HsgrStage == {"open_write:hsgr", "write:hsgr"}

\* ------------------------------------------------------------------------
\* C20, as stated: the stages run in the order compress, expand, side-car
\* files, re-load with fresh speeds, label components, index geometry,
\* contract, write contracted graph; the components are labelled and the
\* R-tree is built after the re-load and before the contraction.
\* ------------------------------------------------------------------------
C20_ClaimedOrder ==
    /\ StageBefore(CompressStage, ExpandStage)
    /\ StageBefore(ExpandStage, ReloadStage)
    /\ StageBefore(ReloadStage, ComponentStage)
    /\ StageBefore(ComponentStage, GeometryStage)
    /\ StageBefore(GeometryStage, ContractStage)
    /\ StageBefore(ContractStage, HsgrStage)

\* ------------------------------------------------------------------------
\* C20, amended: the stages run in the order compress, expand with its
\* side-car files, label components, index geometry, write the edge-based
\* graph (all in the extractor), then re-load with fresh speeds, contract,
\* write contracted graph (in the prepare program); the components are
\* labelled and the R-tree is built before the re-load.
\* ------------------------------------------------------------------------
C20_CodeOrder ==
    /\ StageBefore(CompressStage, ExpandStage)
    /\ StageBefore(ExpandStage, SideCarStage)
    /\ StageBefore(ExpandStage, ComponentStage)
    /\ \A i, j \in 1..Len(events) :
          (events[i] \in SideCarStage /\ events[j] \in ComponentStage) => i < j
    /\ StageBefore(ComponentStage, GeometryStage)
    /\ StageBefore(GeometryStage, EdgeGraphWriteStage)
    /\ StageBefore(EdgeGraphWriteStage, ReloadStage)
    /\ StageBefore(ReloadStage, ContractStage)
    /\ StageBefore(ContractStage, HsgrStage)

\* Both programs have run to their end, with side-car files and a speed
\* table.
C20_Witness ==
    /\ xpc = "returned"
    /\ rpc = "returned"
    /\ generate_edge_lookup
    /\ segment_speed_given
    /\ HasEvent("write:edge_penalties")
    /\ HasEvent("find_components")
    /\ HasEvent("build_rtree")
    /\ HasEvent("read:segment_speed_csv")
    /\ HasEvent("read:edge_penalties")
    /\ HasEvent("write:hsgr")

\* ========================================================================
\* LoadEdgeExpandedGraph on the files of a list of several edges
\* ========================================================================

\* Most edges of the list.
MaxLockstepEdges == 2

\* The lists: the edges of EdgeDomain in turn.
LockstepLists ==
    { [k \in 1..n |-> CHOOSE e \in EdgeDomain : e.edge_id = (k + 1) % 2] :
        n \in 0..MaxLockstepEdges }

\* The state after WriteEdgeBasedGraph has written such a list.
InitLockstep ==
    /\ lpc = "open"
    /\ in_edges \in LockstepLists
    /\ in_max_edge_id \in MaxEdgeIds
    /\ edges_file = EdgesFileOf(in_edges, in_max_edge_id)
    /\ update_edge_weights = FALSE
    /\ csv_rows = <<>>
    /\ segment_speed_lookup = {}
    /\ number_of_edges = 0
    /\ max_edge_id = 0
    /\ read_pos = 1
    /\ edge_based_edge_list = <<>>
    /\ penalties_read = <<>>
    /\ segments_read = <<>>
    /\ in_segments = <<>>
    /\ penalties_file = <<>>
    /\ segments_file = <<>>
    /\ penalties_pos = 1
    /\ segments_pos = 1
    /\ load_ret = None
    /\ RunIdle
    /\ WriteIdle
    /\ RestIdle

NextLockstep ==
    \/ LoadOpen
    \/ LoadHeader
    \/ LoadSpeedTable
    \/ LoadEdge
    \/ LoadReturn

SpecLockstep == InitLockstep /\ [][NextLockstep]_vars

\* ---- helpers for statements about the three streams ----

\* The number of values the first n segment records take in the file.
RECURSIVE ValuesOfRecords(_, _)
ValuesOfRecords(recs, n) ==
    IF n = 0 THEN 0
    ELSE ValuesOfRecords(recs, n - 1) + 2 + 3 * (recs[n].num_osm_nodes - 1)

ParallelRegionRunning ==
    /\ ppc = "parse"
    /\ \E t \in 1..Len(tasks) : tasks[t].x < tasks[t].end

\* ------------------------------------------------------------------------
\* C22: commits are serial: ProcessNode, ProcessWay and ProcessRestriction
\* are called by the driver thread only, never while the parallel parse
\* region of a buffer is running and never two at the same time: a step
\* that makes calls is one of the three serial loops, after the region, and
\* no parse task moves in it.
\* ------------------------------------------------------------------------
C22_SerialCommits ==
    [][callback_calls' # callback_calls =>
          /\ ~ParallelRegionRunning
          /\ ppc \in {"parse", "ways", "restrictions"}
          /\ tasks' = tasks
          /\ <<resulting_nodes, resulting_ways, resulting_restrictions>>' =
                <<resulting_nodes, resulting_ways, resulting_restrictions>>
          /\ <<number_of_nodes, number_of_ways, number_of_relations,
               number_of_others>>' =
                <<number_of_nodes, number_of_ways, number_of_relations,
                  number_of_others>>
          /\ Len(callback_calls') > Len(callback_calls)
          /\ SubSeq(callback_calls', 1, Len(callback_calls)) = callback_calls
          /\ \A i, j \in (Len(callback_calls) + 1)..Len(callback_calls') :
                callback_calls'[i].fn = callback_calls'[j].fn
      ]_vars

\* A buffer parsed by two tasks, and its two elements committed.
C22_Witness ==
    /\ ppc = "read"
    /\ buffers_read = 1
    /\ Len(tasks) = 2
    /\ Len(callback_calls) = 2

\* The callback an element of this type is committed through.
CallbackOf(type) ==
    CASE type = "node"     -> "ProcessNode"
      [] type = "way"      -> "ProcessWay"
      [] type = "relation" -> "ProcessRestriction"
      [] OTHER             -> None

\* The three serial loops of buffer b are through.
BufferCommitted(b) ==
    \/ b < buffers_read
    \/ b = buffers_read /\ ppc \in {"read", "parsed"}

\* The elements of the current buffer the tasks have not parsed yet.
ElementsLeft ==
    LET left[t \in 0..Len(tasks)] ==
           IF t = 0 THEN 0 ELSE left[t - 1] + (tasks[t].end - tasks[t].x)
    IN  left[Len(tasks)]

\* The number of elements of the given types in the buffers handed out.
ElementsRead(types) ==
    LET count[b \in 0..Len(buffers_seen)] ==
           IF b = 0 THEN 0
           ELSE count[b - 1] +
                Cardinality({ x \in 1..Len(buffers_seen[b]) :
                                buffers_seen[b][x] \in types })
    IN  count[Len(buffers_seen)]

\* ------------------------------------------------------------------------
\* C23: across the buffers every node, way and relation element is
\* committed through its callback exactly once, and every element of a
\* buffer is committed before any element of the next buffer is parsed; no
\* result is lost, committed twice or carried over into a later buffer, and
\* the four counters sum to the number of elements read.
\* ------------------------------------------------------------------------
C23_ExactlyOnce ==
    /\ Len(buffers_seen) = buffers_read
    /\ \A b \in 1..Len(buffers_seen) :
          BufferCommitted(b) =>
             \A x \in 0..(Len(buffers_seen[b]) - 1) :
                Cardinality({ i \in 1..Len(callback_calls) :
                                /\ callback_calls[i].buffer = b
                                /\ callback_calls[i].element = x }) =
                   (IF buffers_seen[b][x + 1] = "other" THEN 0 ELSE 1)
    /\ \A i \in 1..Len(callback_calls) :
          LET call == callback_calls[i]
          IN  /\ call.buffer \in 1..Len(buffers_seen)
              /\ call.element \in 0..(Len(buffers_seen[call.buffer]) - 1)
              /\ call.fn = CallbackOf(buffers_seen[call.buffer][call.element + 1])
    /\ \A i, j \in 1..Len(callback_calls) :
          i < j => callback_calls[i].buffer <= callback_calls[j].buffer
    /\ number_of_nodes + number_of_ways + number_of_relations + number_of_others
          = ElementsRead(ItemTypes) - ElementsLeft
    /\ ElementsLeft = 0 =>
          /\ number_of_nodes = ElementsRead({"node"})
          /\ number_of_ways = ElementsRead({"way"})
          /\ number_of_relations = ElementsRead({"relation"})
          /\ number_of_others = ElementsRead({"other"})

\* Two buffers through, the first of two elements parsed by two tasks
\* before it, the second with an element of its own to commit.
C23_Witness ==
    /\ ppc = "parsed"
    /\ buffers_read = 2
    /\ Len(buffers_seen[1]) = 2
    /\ buffers_seen[1][1] = "node"
    /\ buffers_seen[1][2] = "node"
    /\ buffers_seen[2] = <<"node">>
    /\ Len(callback_calls) = 3
    /\ number_of_nodes = 3

\* ---- helpers for statements about the header of the .hsgr file ----

\* The value the header of the .hsgr file gives under this name.
HeaderValue(type) == (CHOOSE c \in { hsgr[i] : i \in 2..4 } : c.type = type).v

IsNodeCell(c) == c.type = "NodeArrayEntry"

\* ------------------------------------------------------------------------
\* C24: whenever WriteContractedGraph returns, the number of edge records
\* in the .hsgr file equals the edge count of its header (the size of the
\* contracted edge list), the node-array size of the header equals the
\* number of node entries written, and the value returned is the number of
\* edge records written; on every return path, the one of a debug build
\* on an edge with distance <= 0 included.
\* ------------------------------------------------------------------------
C24_ReturnConsistent ==
    wpc = "returned" =>
        /\ HeaderValue("edge_count") = EdgeCount
        /\ Len(SelectSeq(hsgr, IsEdgeCell)) = HeaderValue("edge_count")
        /\ Len(SelectSeq(hsgr, IsNodeCell)) = HeaderValue("node_array_size")
        /\ write_ret = Len(SelectSeq(hsgr, IsEdgeCell))

=============================================================================
